---------------------------- MODULE Spec2Model ----------------------------
(***************************************************************************)
(* Model of the distributed query task coordinator of lindb:               *)
(* query/broker/task_manager.go (taskManager) and task_context.go (the     *)
(* three TaskContext variants), both held in                               *)
(* src/query/broker/task_manager.go.                                       *)
(*                                                                         *)
(* Contexts are heap objects (ctxs, by index) because a Receive closure    *)
(* keeps a pointer to the context it looked up while the task table is     *)
(* keyed by id.  Every context owns one unbuffered channel (chans, same    *)
(* index).  A closure handed to the worker pool is a record of workers.    *)
(* The last part models replica/database_channel.go (databaseChannel).     *)
(***************************************************************************)
EXTENDS Integers, Sequences, FiniteSets, TLC

(* ------------------------------ bounds -------------------------------- *)
MaxIntermediates == 1
MaxLeaves == 2
MaxTime == 1
MaxAlloc == 2
MaxExpect == 2
MaxCalls == 3
MaxAckIntermediates == 2
MaxAckNodes == 3
MaxStray == 1
MaxPoolTasks == 4
MaxPoolWorkers == 2
MaxStops == 2
MaxImCalls == 2
MaxSends == 3
MaxShardID == 2
MaxCreators == 2
MaxCreateCalls == 3
MaxBatch == 2

(* ------------------------- names and constants ------------------------ *)
Root == "R"
IMNames == <<"I1", "I2", "I3">>
LFNames == <<"L1", "L2", "L3", "L4">>
\* ttl handed to NewTaskManager, in the model's time unit
TTL == 0

NilErr == "nil"
NotFoundMsg == "tsdb: shard not found"
OtherErrMsg == "storage: query timeout"
DecodeErrMsg == "proto: cannot unmarshal"
MissingAcksMsg == "missing acks from intermdiate nodes"

Intermediates(plan) == {IMNames[i] : i \in 1..plan.ni}
Leaves(plan) == {LFNames[i] : i \in 1..plan.nl}
\* models.PhysicalPlan invariant: Root.NumOfTask = len(Intermediates) when
\* intermediates exist, else len(Leaves)
NumOfTask(plan) == IF plan.ni > 0 THEN plan.ni ELSE plan.nl
Nodes == {Root} \cup {IMNames[i] : i \in 1..Len(IMNames)}

VARIABLES
    seq,        \* taskManager.seq of the root node
    allocated,  \* history: the ids AllocTaskID returned, in allocation order
    tasks,      \* taskManager.tasks per node: set of <<taskID, ctx index>>
    stats,      \* taskManager.statistics per node
    ctxs,       \* heap of TaskContext objects
    chans,      \* the channel owned by each context, with its reader
    workers,    \* closures running in the worker pool / direct callers
    net,        \* TaskResponses in flight
    sent,       \* TaskRequests delivered to a peer's stream, not yet handled
    sentLog,    \* history: every request ever put on a stream
    sub,        \* the caller of Submit*Task on the root node
    cancelled,  \* the caller's context is done
    now,        \* fasttime.UnixMilliseconds, in the model's unit
    cleaner,    \* the key the cleaner's Range callback is about to delete
    recvLog,    \* history: how many Receive calls returned an error / nil
    extra,      \* history: direct AllocTaskID calls, late responses, and per node the
                \* evictTask calls that removed an entry (after a Done
                \* observation / elsewhere)
    pool,       \* a worker pool: stopped flag, queue, running tasks, counters
    dc          \* a databaseChannel: shard count, shardChannels, mutex, and its
                \* callers (CreateChannel, Write) with the record of their returns

vars == <<seq, allocated, tasks, stats, ctxs, chans, workers, net, sent,
          sentLog, sub, cancelled, now, cleaner, recvLog, extra, pool, dc>>
mgrVars == <<seq, allocated, tasks, stats, net, sent, sentLog, sub,
             cancelled, now, cleaner, recvLog, extra, pool, dc>>

(* ------------------------------ channels ------------------------------ *)
\* an unbuffered channel and its single reader
NewChan == [closes |-> 0, panic |-> FALSE, reader |-> "absent",
            handed |-> FALSE, offered |-> <<>>, got |-> <<>>,
            sawClose |-> FALSE]

\* select { case ch <- v: default: } -- succeeds only when the reader is
\* blocked receiving; a send on a closed channel panics
Offer(ch, v) ==
    IF ch.closes > 0 THEN [ch EXCEPT !.panic = TRUE]
    ELSE IF ch.reader = "recv"
         THEN [ch EXCEPT !.offered = Append(@, v), !.got = Append(@, v),
                         !.reader = "absent"]
         ELSE [ch EXCEPT !.offered = Append(@, v)]

\* whether the last Offer on ch was taken by the reader
Delivered(old, new) == Len(new.got) > Len(old.got)

\* close(ch); a second close panics (closes = 2)
CloseChan(ch) ==
    [ch EXCEPT !.closes = IF @ < 2 THEN @ + 1 ELSE @,
               !.sawClose = @ \/ ch.reader = "recv",
               !.reader = IF @ = "recv" THEN "absent" ELSE @]

(* ------------------------------ contexts ------------------------------ *)
\* baseTaskContext plus the variant's fields
newIntermediateAckTaskContext(taskID, taskType, expectResults) ==
    [kind |-> "ack", taskID |-> taskID, taskType |-> taskType,
     parentTaskID |-> "", parentNode |-> "",
     expectResults |-> expectResults, closed |-> FALSE, createTime |-> now,
     mu |-> FALSE, tolerantNotFounds |-> 0, aggBuilt |-> 0,
     agg |-> {}, specs |-> {}, stats |-> {}]

\* a metric context that tolerates no "not found" response
newMetricTaskContextNoTolerance(taskID, taskType, parentTaskID, parentNode, expectResults) ==
    [kind |-> "metric", taskID |-> taskID, taskType |-> taskType,
     parentTaskID |-> parentTaskID, parentNode |-> parentNode,
     expectResults |-> expectResults, closed |-> FALSE, createTime |-> now,
     mu |-> FALSE, tolerantNotFounds |-> 0, aggBuilt |-> 0,
     agg |-> {}, specs |-> {}, stats |-> {}]

newMetricTaskContext(taskID, taskType, parentTaskID, parentNode, expectResults) ==
    [kind |-> "metric", taskID |-> taskID, taskType |-> taskType,
     parentTaskID |-> parentTaskID, parentNode |-> parentNode,
     expectResults |-> expectResults, closed |-> FALSE, createTime |-> now,
     mu |-> FALSE, tolerantNotFounds |-> expectResults, aggBuilt |-> 0,
     agg |-> {}, specs |-> {}, stats |-> {}]

newMetaDataTaskContext(taskID, taskType, parentTaskID, parentNode, expectResults) ==
    [kind |-> "meta", taskID |-> taskID, taskType |-> taskType,
     parentTaskID |-> parentTaskID, parentNode |-> parentNode,
     expectResults |-> expectResults, closed |-> FALSE, createTime |-> now,
     mu |-> FALSE, tolerantNotFounds |-> 0, aggBuilt |-> 0,
     agg |-> {}, specs |-> {}, stats |-> {}]

\* an Expired that never holds
ExpiredNever(c, ttl) == FALSE

\* baseTaskContext.Expired: now - createTime > ttl
Expired(c, ttl) == now - c.createTime > ttl

\* a Done that is true only once more responses than expected arrived
DoneBelowZero(c) == c.expectResults < 0

\* baseTaskContext.Done, evaluated under the mutex
Done(c) == c.expectResults <= 0

\* strings.Contains(errMsg, "not found")
ContainsNotFound(errMsg) == errMsg = NotFoundMsg

\* a checkError that still tolerates the last "not found"
checkErrorOffByOne(tol, errMsg) ==
    IF errMsg = "" THEN [tol |-> tol, ignore |-> FALSE, err |-> ""]
    ELSE IF ~ContainsNotFound(errMsg)
         THEN [tol |-> tol, ignore |-> TRUE, err |-> errMsg]
    ELSE IF tol - 1 >= 0
         THEN [tol |-> tol - 1, ignore |-> TRUE, err |-> ""]
         ELSE [tol |-> tol - 1, ignore |-> TRUE, err |-> errMsg]

\* a checkError that spends the tolerance on every error
checkErrorCountsAllErrors(tol, errMsg) ==
    IF errMsg = "" THEN [tol |-> tol, ignore |-> FALSE, err |-> ""]
    ELSE IF ~ContainsNotFound(errMsg)
         THEN [tol |-> tol - 1, ignore |-> TRUE, err |-> errMsg]
    ELSE IF tol - 1 > 0
         THEN [tol |-> tol - 1, ignore |-> TRUE, err |-> ""]
         ELSE [tol |-> tol - 1, ignore |-> TRUE, err |-> errMsg]

\* metricTaskContext.checkError on tolerantNotFounds = tol:
\* the new counter, ignoreResponse and the error ("" for nil)
checkError(tol, errMsg) ==
    IF errMsg = "" THEN [tol |-> tol, ignore |-> FALSE, err |-> ""]
    ELSE IF ~ContainsNotFound(errMsg)
         THEN [tol |-> tol, ignore |-> TRUE, err |-> errMsg]
    ELSE IF tol - 1 > 0
         THEN [tol |-> tol - 1, ignore |-> TRUE, err |-> ""]
         ELSE [tol |-> tol - 1, ignore |-> TRUE, err |-> errMsg]

\* metricTaskContext.handleStats: responses carrying stats are merged by node
handleStats(c, resp) ==
    IF resp.hasStats THEN [c EXCEPT !.stats = @ \cup {resp.from}] ELSE c

\* the loop over tsList.TimeSeriesList: aggregate until a series without fields
RECURSIVE AggregateSeries(_, _)
AggregateSeries(agg, series) ==
    IF series = <<>> THEN agg
    ELSE IF ~Head(series).hasFields THEN agg
    ELSE AggregateSeries(agg \cup Head(series).tags, Tail(series))

\* a handleTaskResponse that builds a new aggregator for every response
newGroupingAggAlways(c) == [c EXCEPT !.aggBuilt = @ + 1, !.agg = {}]

\* if c.groupAgg == nil { c.groupAgg = newGroupingAgg(...) }: aggBuilt counts
\* the constructions, agg is what the current instance has aggregated
newGroupingAgg(c) ==
    IF c.aggBuilt = 0 THEN [c EXCEPT !.aggBuilt = 1, !.agg = {}] ELSE c

\* metricTaskContext.handleTaskResponse: the context after it, and its error
handleTaskResponse(c, resp) ==
    LET c1 == handleStats(c, resp)
        ce == checkError(c1.tolerantNotFounds, resp.errMsg)
        c2 == [c1 EXCEPT !.tolerantNotFounds = ce.tol]
        c3 == newGroupingAgg([c2 EXCEPT !.specs = @ \cup resp.payload.specs])
    IN  IF ce.err # "" THEN [c |-> c2, err |-> ce.err]
        ELSE IF ce.ignore THEN [c |-> c2, err |-> ""]
        ELSE IF ~resp.payload.ok THEN [c |-> c2, err |-> DecodeErrMsg]
        ELSE IF resp.payload.specs = {} THEN [c |-> c2, err |-> ""]
        ELSE [c |-> [c3 EXCEPT !.agg = AggregateSeries(@, resp.payload.series)],
              err |-> ""]

\* TimeSeriesEvent{Err: err, Stats: c.stats}
ErrEvent(c, err) == [err |-> err, series |-> {}, specs |-> {}, stats |-> c.stats]
\* a merged-result event built without the aggregator's result set
ResultEventEmptySeries(c) == [err |-> "", series |-> {}, specs |-> c.specs, stats |-> c.stats]
\* TimeSeriesEvent{AggregatorSpecs, SeriesList: groupAgg.ResultSet(), Stats}
ResultEvent(c) == [err |-> "", series |-> c.agg, specs |-> c.specs, stats |-> c.stats]

\* an ack context that does not offer the error of an ack
ackWriteSilentError(c, ch, resp) ==
    LET c1 == [c EXCEPT !.expectResults = @ - 1]
    IN  IF c.closed THEN [c |-> c1, ch |-> ch, next |-> "exit"]
        ELSE IF resp.errMsg # ""
             THEN [c |-> c1, ch |-> ch, next |-> "close"]
        ELSE IF c1.expectResults > 0
             THEN [c |-> c1, ch |-> ch, next |-> "close"]
             ELSE [c |-> c1, ch |-> Offer(ch, NilErr), next |-> "close"]

\* The part of WriteResponse between taking the mutex and the deferred close:
\* next = "exit" when the call returns at the closed check, "close" when the
\* deferred (or inline) close decision is still to run.
ackWrite(c, ch, resp) ==
    LET c1 == [c EXCEPT !.expectResults = @ - 1]
    IN  IF c.closed THEN [c |-> c1, ch |-> ch, next |-> "exit"]
        ELSE IF resp.errMsg # ""
             THEN [c |-> c1, ch |-> Offer(ch, resp.errMsg), next |-> "close"]
        ELSE IF c1.expectResults > 0
             THEN [c |-> c1, ch |-> ch, next |-> "close"]
             ELSE [c |-> c1, ch |-> Offer(ch, NilErr), next |-> "close"]

\* a metric context that completes without offering the merged result
metricWriteSilentResult(c, ch, resp) ==
    LET c1 == [c EXCEPT !.expectResults = @ - 1]
        h == handleTaskResponse(c1, resp)
    IN  IF c.closed THEN [c |-> c1, ch |-> ch, next |-> "exit"]
        ELSE IF h.err # ""
             THEN [c |-> h.c, ch |-> Offer(ch, ErrEvent(h.c, h.err)), next |-> "close"]
             ELSE [c |-> h.c, ch |-> ch, next |-> "close"]

\* metricTaskContext.WriteResponse between taking the mutex and the deferred
\* close
metricWrite(c, ch, resp) ==
    LET c1 == [c EXCEPT !.expectResults = @ - 1]
        h == handleTaskResponse(c1, resp)
    IN  IF c.closed THEN [c |-> c1, ch |-> ch, next |-> "exit"]
        ELSE IF h.err # ""
             THEN [c |-> h.c, ch |-> Offer(ch, ErrEvent(h.c, h.err)), next |-> "close"]
        ELSE IF h.c.expectResults > 0
             THEN [c |-> h.c, ch |-> ch, next |-> "close"]
             ELSE [c |-> h.c, ch |-> Offer(ch, ResultEvent(h.c)), next |-> "close"]

\* metaDataTaskContext: the close decision is taken only in the send case
metaWrite(c, ch, resp) ==
    LET c1 == [c EXCEPT !.expectResults = @ - 1]
        ch1 == Offer(ch, resp)
    IN  IF c.closed THEN [c |-> c1, ch |-> ch, next |-> "exit"]
        ELSE IF Delivered(ch, ch1)
             THEN [c |-> c1, ch |-> ch1, next |-> "close"]
             ELSE [c |-> c1, ch |-> ch1, next |-> "exit"]

\* a WriteResponse that returns at the closed check before counting
WriteResponseClosedFirst(c, ch, resp) ==
    IF c.closed THEN [c |-> c, ch |-> ch, next |-> "exit"]
    ELSE CASE c.kind = "ack" -> ackWrite(c, ch, resp)
           [] c.kind = "metric" -> metricWrite(c, ch, resp)
           [] OTHER -> metaWrite(c, ch, resp)

WriteResponse(c, ch, resp) ==
    CASE c.kind = "ack" -> ackWrite(c, ch, resp)
      [] c.kind = "metric" -> metricWrite(c, ch, resp)
      [] OTHER -> metaWrite(c, ch, resp)

\* a close decision that misses expectResults = 0
ShouldCloseBelowZero(c) == c.expectResults < 0

\* if c.expectResults <= 0 { close(ch); c.closed = true }
ShouldClose(c) == c.expectResults <= 0

\* c.mu.Lock() can be taken
\* a WriteResponse that does not take the mutex
MuFreeNoMutex(c) == TRUE
MuFree(c) == ~c.mu

\* a close that does not record itself
MarkClosedForgotten(c) == c

\* c.closed = true, after close(c.eventCh)
MarkClosed(c) == [c EXCEPT !.closed = TRUE]

\* a return that leaves the mutex held
MuUnlockForgotten(c) == c

\* defer c.mu.Unlock()
MuUnlock(c) == [c EXCEPT !.mu = FALSE]

(* -------------------- a closure running WriteResponse ----------------- *)
\* w.pc: write -> close -> (done) -> end | evicted, the tail only for a
\* closure submitted by Receive; "evicted" ends a closure that saw Done()
SetWorker(w, pc) == (workers \ {w}) \cup {[w EXCEPT !.pc = pc]}
\* a finished closure stays in workers at pc "end", as the record of its call
AfterWrite(w) == IF w.tail THEN SetWorker(w, "done") ELSE SetWorker(w, "end")

\* c.mu.Lock() and the body of WriteResponse up to its return statement
WBody(w) ==
    /\ w.pc = "write"
    /\ MuFree(ctxs[w.c])
    /\ LET r == WriteResponse(ctxs[w.c], chans[w.c], w.resp)
       IN  /\ chans' = [chans EXCEPT ![w.c] = r.ch]
           /\ IF r.next = "exit"
              THEN /\ ctxs' = [ctxs EXCEPT ![w.c] = MuUnlock(r.c)]
                   /\ workers' = AfterWrite(w)
              ELSE /\ ctxs' = [ctxs EXCEPT ![w.c] = [r.c EXCEPT !.mu = TRUE]]
                   /\ workers' = SetWorker(w, "close")
    /\ UNCHANGED mgrVars

\* the deferred close decision, then c.mu.Unlock()
WClose(w) ==
    /\ w.pc = "close"
    /\ IF ShouldClose(ctxs[w.c])
       THEN /\ chans' = [chans EXCEPT ![w.c] = CloseChan(@)]
            /\ ctxs' = [ctxs EXCEPT ![w.c] = MuUnlock(MarkClosed(@))]
       ELSE /\ chans' = chans
            /\ ctxs' = [ctxs EXCEPT ![w.c] = MuUnlock(@)]
    /\ workers' = AfterWrite(w)
    /\ UNCHANGED mgrVars

(* ------------------------------ responses ----------------------------- *)
\* TimeSeriesList payloads: decodable or not, FieldAggSpecs, TimeSeriesList
DataPayload(src) ==
    [ok |-> TRUE, specs |-> {"f"}, series |-> <<[tags |-> src, hasFields |-> TRUE]>>]
EmptyPayload == [ok |-> TRUE, specs |-> {}, series |-> <<>>]
BadPayload == [ok |-> FALSE, specs |-> {}, series |-> <<>>]
NoFieldsPayload(src) ==
    [ok |-> TRUE, specs |-> {"f"},
     series |-> <<[tags |-> src, hasFields |-> TRUE],
                  [tags |-> {"nofields"}, hasFields |-> FALSE]>>]

RespKinds == <<"ok", "notfound", "error", "empty", "bad", "nofields">>

\* protoCommonV1.TaskResponse from node `from` to node `to`
MkResp(taskID, rtype, from, to, kind, src) ==
    [taskID |-> taskID, rtype |-> rtype, from |-> from, to |-> to,
     hasStats |-> TRUE,
     errMsg |-> CASE kind = "notfound" -> NotFoundMsg
                  [] kind = "error" -> OtherErrMsg
                  [] OTHER -> "",
     payload |-> CASE kind = "ok" -> DataPayload(src)
                   [] kind = "bad" -> BadPayload
                   [] kind = "nofields" -> NoFieldsPayload(src)
                   [] OTHER -> EmptyPayload]

(* ------------------------------ consumer ------------------------------ *)
\* the reader of an event channel blocks in a receive ...
ConsRecv(c) ==
    /\ chans[c].handed
    /\ chans[c].reader = "absent"
    /\ ~chans[c].sawClose
    /\ chans' = [chans EXCEPT ![c] =
                   IF @.closes > 0 THEN [@ EXCEPT !.sawClose = TRUE]
                   ELSE [@ EXCEPT !.reader = "recv"]]
    /\ UNCHANGED <<ctxs, workers, mgrVars>>

\* ... and may give up waiting (its own context is done)
ConsLeave(c) ==
    /\ chans[c].handed
    /\ chans[c].reader = "recv"
    /\ chans' = [chans EXCEPT ![c].reader = "gone"]
    /\ UNCHANGED <<ctxs, workers, mgrVars>>

(* ---------------- one context under concurrent callers ---------------- *)
IdleSub == [kind |-> "none", pc |-> "idle", plan |-> [ni |-> 0, nl |-> 0],
            taskID |-> <<Root, 0>>, pending |-> {}, sendErr |-> "",
            ackCtx |-> 0, ctx |-> 0, retCh |-> 0, retErr |-> "",
            client |-> ""]
ZeroStats == [CreatedTasks |-> 0, AliveTask |-> 0, ExpireTasks |-> 0,
              OmitResponse |-> 0, EmitResponse |-> 0, SentRequest |-> 0,
              SentRequestFailures |-> 0, SentResponses |-> 0,
              SentResponseFailures |-> 0]
\* Submit after Stop accepts the task all the same
RejectsNever(p) == FALSE

\* Submit rejects once the pool is stopped
Rejects(p) == p.stopped

\* NewPool: running, nothing submitted
NewPool ==
    [stopped |-> FALSE, stopCalls |-> 0, submitted |-> 0, queue |-> <<>>,
     running |-> {}, runs |-> [i \in 1..MaxPoolTasks |-> 0], rejected |-> {},
     afterStop |-> {}]

\* the shard count the database channel was created with
DbNumOfShard == 2
\* shard ids and shard counts handed to CreateChannel
ShardIDs == 0..MaxShardID
ShardNums == 0..(MaxShardID + 1)

IdleCreator == [pc |-> "idle", numOfShard |-> 0, shardID |-> 0, hit |-> "none",
                ch |-> 0]
IdleWriter == [pc |-> "idle", batch |-> <<>>, i |-> 1, err |-> "",
               attempted |-> 0, failed |-> {}]

\* newDatabaseChannel: numOfShard stored, no shard channel, mutex free;
\* created lists the shard of every channel createChannel has built (a
\* channel is its index), returns lists what the CreateChannel calls returned
newDatabaseChannel(numOfShard) ==
    [numOfShard |-> numOfShard,
     shardChannels |-> [s \in ShardIDs |-> 0],
     mutex |-> 0,
     created |-> <<>>,
     creators |-> [k \in 1..MaxCreators |-> IdleCreator],
     calls |-> 0,
     returns |-> <<>>,
     writer |-> IdleWriter]

MgrInit ==
    /\ dc = newDatabaseChannel(DbNumOfShard)
    /\ pool = NewPool
    /\ seq = 0
    /\ allocated = <<>>
    /\ tasks = [n \in Nodes |-> {}]
    /\ stats = [n \in Nodes |-> ZeroStats]
    /\ net = {}
    /\ sent = {}
    /\ sentLog = {}
    /\ cancelled = FALSE
    /\ cleaner = <<>>
    /\ recvLog = [errs |-> 0, oks |-> 0]
    /\ extra = [alloc |-> 0, stray |-> 0, doneEvict |-> [n \in Nodes |-> 0],
                otherEvict |-> [n \in Nodes |-> 0]]

CtxKinds == {"ack", "metric", "meta"}
KindsFor(kind) == IF kind = "metric" THEN 1..Len(RespKinds) ELSE {1, 3}
\* the callers are interchangeable: their responses are drawn as a multiset
CallKinds(kind, k) ==
    {f \in [1..k -> KindsFor(kind)] : \A i \in 1..(k - 1) : f[i] <= f[i + 1]}
CtxTaskID == <<Root, 1>>
NewCtx(kind, e) ==
    CASE kind = "ack" -> newIntermediateAckTaskContext(CtxTaskID, "RootTask", e)
      [] kind = "metric" -> newMetricTaskContext(CtxTaskID, "RootTask", "", "", e)
      [] OTHER -> newMetaDataTaskContext(CtxTaskID, "RootTask", "", "", e)

InitCtx ==
    /\ MgrInit
    /\ now = 0
    /\ sub = IdleSub
    /\ \E kind \in CtxKinds, e \in 1..MaxExpect, k \in 1..MaxCalls :
         \E f \in CallKinds(kind, k) :
            /\ ctxs = <<NewCtx(kind, e)>>
            /\ chans = <<[NewChan EXCEPT !.handed = TRUE]>>
            /\ workers = {[node |-> Root, c |-> 1, pc |-> "write", tail |-> FALSE,
                           resp |-> MkResp(CtxTaskID, "Leaf", LFNames[i], Root,
                                           RespKinds[f[i]], {LFNames[i]})] :
                          i \in 1..k}

NextCtx ==
    \/ \E w \in workers : WBody(w)
    \/ \E w \in workers : WClose(w)
    \/ \E c \in 1..Len(ctxs) : ConsRecv(c)
    \/ \E c \in 1..Len(ctxs) : ConsLeave(c)

SpecCtx == InitCtx /\ [][NextCtx]_vars

(* ============================ the task manager ======================== *)
\* taskManager.Get: the context stored under taskID on node n, 0 for nil
Get(n, taskID) ==
    IF \E p \in tasks[n] : p[1] = taskID
    THEN (CHOOSE p \in tasks[n] : p[1] = taskID)[2]
    ELSE 0

\* an increment that is lost after the first one
AllocSeqLostUpdate(s) == IF s < 1 THEN s + 1 ELSE s

\* seq.Inc()
AllocSeq(s) == s + 1

\* fmt.Sprintf("%s-%d", currentNodeID, seq)
FormatTaskID(node, s) == <<node, s>>

\* an evictTask that decrements without looking at loaded
evictAliveAlways(loaded, alive) == alive - 1

\* evictTask's counter update: AliveTask.Decr() only if the key was loaded
evictAlive(loaded, alive) == IF loaded THEN alive - 1 ELSE alive

\* an evictTask that loads the entry and leaves it in the table
evictTasksLoadOnly(n, taskID) == tasks

\* taskManager.evictTask: tasks.LoadAndDelete(taskID), by id
evictTasks(n, taskID) == [tasks EXCEPT ![n] = {p \in @ : p[1] # taskID}]
evictStats(n, taskID) ==
    [stats EXCEPT ![n].AliveTask = evictAlive(Get(n, taskID) # 0, @)]

\* history of evictTask: the call removed an entry
doneEvicted(n, taskID) ==
    IF Get(n, taskID) # 0 THEN [extra EXCEPT !.doneEvict[n] = @ + 1] ELSE extra
otherEvicted(n, taskID) ==
    IF Get(n, taskID) # 0 THEN [extra EXCEPT !.otherEvict[n] = @ + 1] ELSE extra

\* taskManager.storeTask: tasks.Store, CreatedTasks.Incr, AliveTask.Incr
\* a storeTask that leaves the table as it was
storeTasksNothing(n, taskID, c) == tasks

\* storeTask: tasks.Store(taskID, taskCtx)
storeTasks(n, taskID, c) ==
    [tasks EXCEPT ![n] = {p \in @ : p[1] # taskID} \cup {<<taskID, c>>}]
storeStats(n) ==
    [stats EXCEPT ![n].CreatedTasks = @ + 1, ![n].AliveTask = @ + 1]

\* protoCommonV1.TaskRequest as put on the stream to node `to`
MkReq(to, ttype, rtype, parentTaskID, plan) ==
    [to |-> to, ttype |-> ttype, rtype |-> rtype,
     parentTaskID |-> parentTaskID, plan |-> plan]

ErrNoSendStream == "ErrNoSendStream"
ErrTaskSend == "ErrTaskSend"
ErrTimeout == "ErrTimeout"
\* GetTaskClient returns nil / client.Send fails / the request is on the stream
SendOutcomes == {"ok", ErrNoSendStream, ErrTaskSend}

\* AllocTaskID called by another user of the manager
AllocTaskID ==
    /\ extra.alloc < MaxAlloc
    /\ seq' = AllocSeq(seq)
    /\ allocated' = Append(allocated, FormatTaskID(Root, seq'))
    /\ pool' = pool
    /\ dc' = dc
    /\ extra' = [extra EXCEPT !.alloc = @ + 1]
    /\ UNCHANGED <<tasks, stats, ctxs, chans, workers, net, sent, sentLog, sub,
                   cancelled, now, cleaner, recvLog>>

\* SubmitMetricTask / SubmitMetaDataTask: rootTaskID := t.AllocTaskID()
SubAlloc ==
    /\ sub.pc = "idle"
    /\ sub.kind \in {"metric", "meta"}
    /\ seq' = AllocSeq(seq)
    /\ allocated' = Append(allocated, FormatTaskID(Root, seq'))
    /\ sub' = [sub EXCEPT !.taskID = FormatTaskID(Root, seq'),
                          !.pc = IF sub.kind = "metric" /\ sub.plan.ni > 0
                                 THEN "ackStore" ELSE "store"]
    /\ UNCHANGED <<tasks, stats, ctxs, chans, workers, net, sent, sentLog,
                   cancelled, now, cleaner, recvLog, extra, pool, dc>>

\* ensureIntermediateAckTasks up to wg.Wait(): the ack context is stored and
\* one send per intermediate is handed to the worker pool
SubAckStore ==
    /\ sub.pc = "ackStore"
    /\ ctxs' = Append(ctxs, newIntermediateAckTaskContext(
                          sub.taskID, "RootTask", sub.plan.ni))
    /\ chans' = Append(chans, NewChan)
    /\ tasks' = storeTasks(Root, sub.taskID, Len(ctxs) + 1)
    /\ stats' = storeStats(Root)
    /\ sub' = [sub EXCEPT !.pc = "ackWg", !.ackCtx = Len(ctxs) + 1,
                          !.pending = Intermediates(sub.plan)]
    /\ UNCHANGED <<seq, allocated, workers, net, sent, sentLog, cancelled, now,
                   cleaner, recvLog, extra, pool, dc>>

\* a fanout closure: t.SendRequest(target, req), sendError.Store, wg.Done
SendTask(target, outcome) ==
    /\ sub.pc \in {"ackWg", "leafWg"}
    /\ target \in sub.pending
    /\ LET req == MkReq(target,
                        IF sub.pc = "ackWg" THEN "Intermediate"
                        ELSE IF sub.kind = "meta" THEN "Unset" ELSE "Leaf",
                        IF sub.kind = "meta" THEN "Metadata" ELSE "Data",
                        sub.taskID, sub.plan)
       IN  IF outcome = "ok"
           THEN /\ sent' = sent \cup {req}
                /\ sentLog' = sentLog \cup {req}
                /\ stats' = [stats EXCEPT ![Root].SentRequest = @ + 1]
                /\ sub' = [sub EXCEPT !.pending = @ \ {target}]
           ELSE /\ sent' = sent
                /\ sentLog' = sentLog
                /\ stats' = [stats EXCEPT ![Root].SentRequestFailures = @ + 1]
                /\ sub' = [sub EXCEPT !.pending = @ \ {target},
                                      !.sendErr = outcome]
    /\ UNCHANGED <<seq, allocated, tasks, ctxs, chans, workers, net, cancelled,
                   now, cleaner, recvLog, extra, pool, dc>>

\* a handshake that goes on to the select after a failed send
AckSendFailedNever(sendErr) == FALSE

\* ensureIntermediateAckTasks:  if sendError.Load() != nil
AckSendFailed(sendErr) == sendErr # ""

\* wg.Wait() returned in ensureIntermediateAckTasks: a send error returns
\* (the deferred evictTask runs), otherwise the root blocks in the select
SubAckWait ==
    /\ sub.pc = "ackWg"
    /\ sub.pending = {}
    /\ IF AckSendFailed(sub.sendErr)
       THEN /\ tasks' = evictTasks(Root, sub.taskID)
            /\ stats' = evictStats(Root, sub.taskID)
            /\ pool' = pool
            /\ dc' = dc
            /\ extra' = otherEvicted(Root, sub.taskID)
            /\ sub' = [sub EXCEPT !.pc = "returned", !.retCh = 0,
                                  !.retErr = sub.sendErr]
            /\ chans' = chans
       ELSE /\ UNCHANGED <<tasks, stats, extra, pool, dc>>
            /\ sub' = [sub EXCEPT !.pc = "ackSelect"]
            /\ chans' = [chans EXCEPT ![sub.ackCtx] =
                           IF @.closes > 0 THEN [@ EXCEPT !.sawClose = TRUE]
                           ELSE [@ EXCEPT !.reader = "recv"]]
    /\ UNCHANGED <<seq, allocated, ctxs, workers, net, sent, sentLog, cancelled,
                   now, cleaner, recvLog>>

\* what the select in ensureIntermediateAckTasks returns: a received event
\* (NilErr for nil), the missing-acks error on a closed channel, or
\* ErrTimeout: the caller's context may become done at any moment of the
\* wait, unless the receive has already taken place
AckSelectResults ==
    LET ch == chans[sub.ackCtx]
    IN  IF ch.got # <<>> THEN {ch.got[1]}
        ELSE (IF ch.sawClose THEN {MissingAcksMsg} ELSE {}) \cup {ErrTimeout}

\* a SubmitMetricTask that goes on after a failed handshake
AckFailsIgnored(res) == FALSE

\* SubmitMetricTask:  if err := t.ensureIntermediateAckTasks(...); err != nil
AckFails(res) == res # NilErr

\* the select fires; the deferred evictTask(rootTaskID) runs; on nil the
\* submit goes on, otherwise SubmitMetricTask returns (nil, err)
SubAckSelect ==
    /\ sub.pc = "ackSelect"
    /\ \E res \in AckSelectResults :
          /\ sub' = IF AckFails(res)
                    THEN [sub EXCEPT !.pc = "returned", !.retCh = 0, !.retErr = res]
                    ELSE [sub EXCEPT !.pc = "store"]
          /\ cancelled' = (res = ErrTimeout)
    /\ tasks' = evictTasks(Root, sub.taskID)
    /\ stats' = evictStats(Root, sub.taskID)
    /\ pool' = pool
    /\ dc' = dc
    /\ extra' = otherEvicted(Root, sub.taskID)
    /\ chans' = [chans EXCEPT ![sub.ackCtx].reader = "gone"]
    /\ UNCHANGED <<seq, allocated, ctxs, workers, net, sent, sentLog, now,
                   cleaner, recvLog>>

\* a root context that expects one response per leaf
RootExpectResultsLeaves(plan) == plan.nl

\* SubmitMetricTask hands physicalPlan.Root.NumOfTask to newMetricTaskContext
RootExpectResults(plan) == NumOfTask(plan)

\* the context of the submit is created and stored, and one send per leaf is
\* handed to the worker pool
SubStore ==
    /\ sub.pc = "store"
    /\ ctxs' = Append(ctxs,
                 IF sub.kind = "metric"
                 THEN newMetricTaskContext(sub.taskID, "RootTask", "", "",
                                           RootExpectResults(sub.plan))
                 ELSE newMetaDataTaskContext(sub.taskID, "RootTask", "", "",
                                             NumOfTask(sub.plan)))
    /\ chans' = Append(chans, NewChan)
    /\ tasks' = storeTasks(Root, sub.taskID, Len(ctxs) + 1)
    /\ stats' = storeStats(Root)
    /\ sub' = [sub EXCEPT !.pc = "leafWg", !.ctx = Len(ctxs) + 1,
                          !.pending = Leaves(sub.plan), !.sendErr = ""]
    /\ UNCHANGED <<seq, allocated, workers, net, sent, sentLog, cancelled, now,
                   cleaner, recvLog, extra, pool, dc>>

\* a submit that returns a nil error whatever was stored
LoadSendErrorNil(sendErr) == ""

\* return responseCh, sendError.Load()
LoadSendError(sendErr) == sendErr

\* a fanout that never sees its send error
FanoutFailedNever(sendErr) == FALSE

\* if sendError.Load() != nil
FanoutFailed(sendErr) == sendErr # ""

\* wg.Wait() returned after the leaf fanout: evict on a send error, and
\* return (responseCh, sendError.Load())
SubLeafWait ==
    /\ sub.pc = "leafWg"
    /\ sub.pending = {}
    /\ IF FanoutFailed(sub.sendErr)
       THEN /\ tasks' = evictTasks(Root, sub.taskID)
            /\ stats' = evictStats(Root, sub.taskID)
            /\ pool' = pool
            /\ dc' = dc
            /\ extra' = otherEvicted(Root, sub.taskID)
       ELSE UNCHANGED <<tasks, stats, extra, pool, dc>>
    /\ sub' = [sub EXCEPT !.pc = "returned", !.retCh = sub.ctx,
                          !.retErr = LoadSendError(sub.sendErr)]
    /\ chans' = [chans EXCEPT ![sub.ctx].handed = TRUE]
    /\ UNCHANGED <<seq, allocated, ctxs, workers, net, sent, sentLog, cancelled,
                   now, cleaner, recvLog>>

\* a Receive that counts EmitResponse before the lookup
omitResponseAlsoEmits(n) ==
    [stats EXCEPT ![n].OmitResponse = @ + 1, ![n].EmitResponse = @ + 1]

\* Receive on an unknown task id: statistics.OmitResponse.Incr()
omitResponse(n) == [stats EXCEPT ![n].OmitResponse = @ + 1]

\* a Receive that hands the response over without counting it
emitResponseUncounted(n) == stats

\* Receive on a known task id: statistics.EmitResponse.Incr()
emitResponse(n) == [stats EXCEPT ![n].EmitResponse = @ + 1]

\* taskManager.Receive(resp, fromNode) on node resp.to
Receive(resp) ==
    /\ resp \in net
    /\ net' = net \ {resp}
    /\ LET c == Get(resp.to, resp.taskID)
       IN  IF c = 0
           THEN /\ stats' = omitResponse(resp.to)
                /\ recvLog' = [recvLog EXCEPT !.errs = @ + 1]
                /\ workers' = workers
           ELSE /\ stats' = emitResponse(resp.to)
                /\ recvLog' = [recvLog EXCEPT !.oks = @ + 1]
                /\ workers' = workers \cup
                      {[node |-> resp.to, c |-> c, pc |-> "write", tail |-> TRUE,
                        resp |-> resp]}
    /\ UNCHANGED <<seq, allocated, tasks, ctxs, chans, sent, sentLog, sub,
                   cancelled, now, cleaner, extra, pool, dc>>

\* the closure's  if taskCtx.Done() { t.evictTask(resp.TaskID) }.
\* Done() takes the mutex; once true it stays true, so the evictTask that
\* follows it is taken in the same step.
WDone(w) ==
    /\ w.pc = "done"
    /\ MuFree(ctxs[w.c])
    /\ IF Done(ctxs[w.c])
       THEN /\ tasks' = evictTasks(w.node, w.resp.taskID)
            /\ stats' = evictStats(w.node, w.resp.taskID)
            /\ pool' = pool
            /\ dc' = dc
            /\ extra' = doneEvicted(w.node, w.resp.taskID)
            /\ workers' = SetWorker(w, "evicted")
       ELSE /\ UNCHANGED <<tasks, stats, extra, pool, dc>>
            /\ workers' = SetWorker(w, "end")
    /\ UNCHANGED <<seq, allocated, ctxs, chans, net, sent, sentLog, sub,
                   cancelled, now, cleaner, recvLog>>

\* time passes
Tick ==
    /\ now < MaxTime
    /\ now' = now + 1
    /\ UNCHANGED <<seq, allocated, tasks, stats, ctxs, chans, workers, net, sent,
                   sentLog, sub, cancelled, cleaner, recvLog, extra, pool, dc>>

\* cleaner: the Range callback loads an entry and finds it expired ...
CleanerVisit ==
    /\ cleaner = <<>>
    /\ \E p \in tasks[Root] :
          /\ Expired(ctxs[p[2]], TTL)
          /\ cleaner' = <<p[1]>>
    /\ UNCHANGED <<seq, allocated, tasks, stats, ctxs, chans, workers, net, sent,
                   sentLog, sub, cancelled, now, recvLog, extra, pool, dc>>

\* ... then AliveTask.Decr(), ExpireTasks.Incr(), tasks.Delete(key)
CleanerEvict ==
    /\ cleaner # <<>>
    /\ stats' = [stats EXCEPT ![Root].AliveTask = @ - 1,
                              ![Root].ExpireTasks = @ + 1]
    /\ tasks' = evictTasks(Root, cleaner[1])
    /\ cleaner' = <<>>
    /\ UNCHANGED <<seq, allocated, ctxs, chans, workers, net, sent, sentLog, sub,
                   cancelled, now, recvLog, extra, pool, dc>>

(* ------------------------------- peers -------------------------------- *)
AckErrs == {"", OtherErrMsg}
LeafKinds == {"ok", "error"}

\* a context stored under an id of the intermediate itself
IntermediateTaskKeyOwnID(n, parentTaskID) == FormatTaskID(n, 0)

\* SubmitIntermediateMetricTask stores its context under parentTaskID
IntermediateTaskKey(n, parentTaskID) == parentTaskID

\* taskManager.SubmitIntermediateMetricTask on node n
SubmitIntermediateMetricTask(n, plan, parentTaskID) ==
    /\ ctxs' = Append(ctxs, newMetricTaskContext(
                          parentTaskID, "IntermediateTask", parentTaskID, Root,
                          plan.nl))
    /\ chans' = Append(chans, [NewChan EXCEPT !.handed = TRUE])
    /\ tasks' = storeTasks(n, IntermediateTaskKey(n, parentTaskID), Len(ctxs) + 1)
    /\ stats' = storeStats(n)

\* a caller on node n invokes SubmitIntermediateMetricTask and gets the
\* channel back; sub records the call and its return value
SubIntermediate(n, plan, parentTaskID) ==
    /\ Len(ctxs) < MaxImCalls
    /\ SubmitIntermediateMetricTask(n, plan, parentTaskID)
    /\ sub' = [sub EXCEPT !.kind = "intermediate", !.pc = "returned",
                          !.plan = plan, !.taskID = parentTaskID,
                          !.retCh = Len(ctxs) + 1]
    /\ UNCHANGED <<seq, allocated, workers, net, sent, sentLog, cancelled, now,
                   cleaner, recvLog, extra, pool, dc>>

\* what the factory holds for a target: no stream (nil), a stream whose Send
\* fails, a stream whose Send succeeds
Clients == {"nil", "broken", "ok"}
ErrResponseSend == "ErrResponseSend"

\* the error SendRequest returns (the sentinel its error wraps, "" for nil)
SendRequestErr(client) ==
    CASE client = "nil" -> ErrNoSendStream
      [] client = "broken" -> ErrTaskSend
      [] OTHER -> ""
\* the counter SendRequest increments on node n
SendRequestStats(n, client) ==
    IF client = "ok" THEN [stats EXCEPT ![n].SentRequest = @ + 1]
    ELSE [stats EXCEPT ![n].SentRequestFailures = @ + 1]

\* a SendResponse that reports a failed Send with the request's sentinel
SendResponseErrAsRequest(client) ==
    CASE client = "nil" -> ErrNoSendStream
      [] client = "broken" -> ErrTaskSend
      [] OTHER -> ""

\* the error SendResponse returns (the sentinel its error wraps, "" for nil)
SendResponseErr(client) ==
    CASE client = "nil" -> ErrNoSendStream
      [] client = "broken" -> ErrResponseSend
      [] OTHER -> ""
\* the counter SendResponse increments on node n
SendResponseStats(n, client) ==
    IF client = "ok" THEN [stats EXCEPT ![n].SentResponses = @ + 1]
    ELSE [stats EXCEPT ![n].SentResponseFailures = @ + 1]

\* the send calls node n has made
SendCalls(n) ==
    stats[n].SentRequest + stats[n].SentRequestFailures
       + stats[n].SentResponses + stats[n].SentResponseFailures

\* taskManager.SendRequest(targetNodeID, req) called on node n; sub records
\* the call, what the factory held, and the returned error
SendRequest(n, target, client) ==
    /\ SendCalls(n) < MaxSends
    /\ LET req == MkReq(target, "Leaf", "Data", FormatTaskID(n, 1),
                        [ni |-> 0, nl |-> 1])
       IN  /\ sent' = IF client = "ok" THEN sent \cup {req} ELSE sent
           /\ sentLog' = IF client = "ok" THEN sentLog \cup {req} ELSE sentLog
    /\ stats' = SendRequestStats(n, client)
    /\ sub' = [sub EXCEPT !.kind = "SendRequest", !.pc = "returned",
                          !.pending = {n}, !.client = client,
                          !.retErr = SendRequestErr(client)]
    /\ UNCHANGED <<seq, allocated, tasks, ctxs, chans, workers, net, cancelled,
                   now, cleaner, recvLog, extra, pool, dc>>

\* taskManager.SendResponse(parentNodeID, resp) called on node n
SendResponse(n, parent, client) ==
    /\ SendCalls(n) < MaxSends
    /\ LET resp == MkResp(FormatTaskID(parent, 1), "Intermediate", n, parent,
                          "empty", {})
       IN  net' = IF client = "ok" THEN net \cup {resp} ELSE net
    /\ stats' = SendResponseStats(n, client)
    /\ sub' = [sub EXCEPT !.kind = "SendResponse", !.pc = "returned",
                          !.pending = {n}, !.client = client,
                          !.retErr = SendResponseErr(client)]
    /\ UNCHANGED <<seq, allocated, tasks, ctxs, chans, workers, sent, sentLog,
                   cancelled, now, cleaner, recvLog, extra, pool, dc>>

\* an intermediate handles an Intermediate-typed request: it registers its
\* context with SubmitIntermediateMetricTask, then sends exactly one ack
ImHandle(req, ackErr) ==
    /\ req \in sent
    /\ req.ttype = "Intermediate"
    /\ sent' = sent \ {req}
    /\ SubmitIntermediateMetricTask(req.to, req.plan, req.parentTaskID)
    /\ net' = net \cup {[MkResp(req.parentTaskID, "Intermediate", req.to, Root,
                                "empty", {}) EXCEPT !.errMsg = ackErr]}
    /\ UNCHANGED <<seq, allocated, workers, sentLog, sub, cancelled, now,
                   cleaner, recvLog, extra, pool, dc>>

\* a leaf handles a Leaf-typed (or Metadata) request and replies once to
\* every receiver: the intermediates of the plan, or the root without any
LeafHandle(req, kind) ==
    /\ req \in sent
    /\ req.ttype # "Intermediate"
    /\ sent' = sent \ {req}
    /\ net' = net \cup
          {MkResp(req.parentTaskID, "Leaf", req.to, to, kind, {req.to}) :
             to \in IF req.plan.ni > 0 THEN Intermediates(req.plan) ELSE {Root}}
    /\ UNCHANGED <<seq, allocated, tasks, stats, ctxs, chans, workers, sentLog,
                   sub, cancelled, now, cleaner, recvLog, extra, pool, dc>>

\* a leaf that has replied sends one more, empty response for the same task
\* (a duplicate or late response): a straggler
LeafStraggler(req) ==
    /\ extra.stray < MaxStray
    /\ req \in sentLog \ sent
    /\ req.ttype # "Intermediate"
    /\ net' = net \cup
          {MkResp(req.parentTaskID, "Leaf", req.to, to, "empty", {}) :
             to \in IF req.plan.ni > 0 THEN Intermediates(req.plan) ELSE {Root}}
    /\ pool' = pool
    /\ dc' = dc
    /\ extra' = [extra EXCEPT !.stray = @ + 1]
    /\ UNCHANGED <<seq, allocated, tasks, stats, ctxs, chans, workers, sent,
                   sentLog, sub, cancelled, now, cleaner, recvLog>>

\* an intermediate forwards the event it read from its context's channel to
\* the parent node (SendResponse)
ImForward(c) ==
    /\ ctxs[c].taskType = "IntermediateTask"
    /\ chans[c].got # <<>>
    /\ chans[c].reader # "gone"
    /\ LET ev == chans[c].got[1]
           n == CHOOSE n \in Nodes : <<ctxs[c].taskID, c>> \in tasks[n]
                                     \/ \E w \in workers : w.c = c /\ w.node = n
           base == MkResp(ctxs[c].parentTaskID, "Intermediate", n,
                          ctxs[c].parentNode,
                          IF ev.err = "" /\ ev.series # {} THEN "ok" ELSE "empty",
                          ev.series)
       IN  net' = net \cup {[base EXCEPT !.errMsg = ev.err]}
    /\ chans' = [chans EXCEPT ![c].reader = "gone"]
    /\ UNCHANGED <<seq, allocated, tasks, stats, ctxs, workers, sent, sentLog,
                   sub, cancelled, now, cleaner, recvLog, extra, pool, dc>>

(* --------------------------- the specification ------------------------ *)
Plans(kind) ==
    {[ni |-> i, nl |-> l] :
        i \in (IF kind = "metric" THEN 0..MaxIntermediates ELSE {0}),
        l \in 1..MaxLeaves}

Init ==
    /\ MgrInit
    /\ now = 0
    /\ ctxs = <<>>
    /\ chans = <<>>
    /\ workers = {}
    /\ \E kind \in {"metric", "meta"} : \E plan \in Plans(kind) :
          sub = [IdleSub EXCEPT !.kind = kind, !.plan = plan]

\* a submit on a plan without intermediates, its responses and its reader
NextSubmit ==
    \/ SubAlloc
    \/ \E t \in sub.pending, o \in SendOutcomes : SendTask(t, o)
    \/ SubStore
    \/ SubLeafWait
    \/ \E r \in net : Receive(r)
    \/ \E w \in workers : WBody(w)
    \/ \E w \in workers : WClose(w)
    \/ \E w \in workers : WDone(w)
    \/ \E r \in sent, k \in LeafKinds : LeafHandle(r, k)
    \/ \E c \in 1..Len(ctxs) : ConsRecv(c)

\* the handshake with the intermediates
NextAck ==
    \/ SubAckStore
    \/ SubAckWait
    \/ SubAckSelect
    \/ \E r \in sent, e \in AckErrs : ImHandle(r, e)

\* the intermediates pass their results on to the root
NextForward == \E c \in 1..Len(ctxs) : ImForward(c)

\* the TTL cleaner of the root node
NextTTL ==
    \/ Tick
    \/ CleanerVisit
    \/ CleanerEvict

Next == NextSubmit \/ NextAck \/ NextForward \/ NextTTL

Spec == Init /\ [][Next]_vars

\* submits without intermediates next to other callers of AllocTaskID
InitAlloc == Init /\ sub.plan.ni = 0
NextAlloc == NextSubmit \/ AllocTaskID
SpecAlloc == InitAlloc /\ [][NextAlloc]_vars

\* one-leaf submits under a cleaner whose ticker keeps firing while the
\* manager's context is not done, and a clock that advances
InitOneLeaf == Init /\ sub.plan.nl = 1
FairTTL == WF_vars(Tick) /\ WF_vars(CleanerVisit) /\ WF_vars(CleanerEvict)
SpecTTL == InitOneLeaf /\ [][Next]_vars /\ FairTTL

\* one-leaf submits whose leaf may send a straggler, without the cleaner
NextStraggler == \E r \in sentLog : LeafStraggler(r)
NextDone == NextSubmit \/ NextAck \/ NextForward \/ NextStraggler
SpecDone == InitOneLeaf /\ [][NextDone]_vars

(* ---------------------------- the worker pool ------------------------- *)
allOthers == <<seq, allocated, tasks, stats, ctxs, chans, workers, net, sent,
               sentLog, sub, cancelled, now, cleaner, recvLog, extra, dc>>

\* Submit(ctx, task) of the i-th task: rejected (TasksRejected) on a stopped
\* pool, scheduled otherwise; afterStop records the submissions made after a
\* Stop call returned
Submit(i) ==
    /\ i = pool.submitted + 1
    /\ i <= MaxPoolTasks
    /\ pool' = [pool EXCEPT
                  !.submitted = i,
                  !.afterStop = IF pool.stopCalls > 0 THEN @ \cup {i} ELSE @,
                  !.rejected = IF Rejects(pool) THEN @ \cup {i} ELSE @,
                  !.queue = IF Rejects(pool) THEN @ ELSE Append(@, i)]
    /\ UNCHANGED allOthers

\* a free worker takes the next scheduled task, also on a stopped pool
WorkerTake ==
    /\ pool.queue # <<>>
    /\ Cardinality(pool.running) < MaxPoolWorkers
    /\ pool' = [pool EXCEPT !.queue = Tail(@),
                            !.running = @ \cup {Head(pool.queue)}]
    /\ UNCHANGED allOthers

\* a worker executes the closure of its task
WorkerRun(i) ==
    /\ i \in pool.running
    /\ pool' = [pool EXCEPT !.running = @ \ {i}, !.runs[i] = @ + 1]
    /\ UNCHANGED allOthers

\* Stop(): the first call stops the pool, a later call returns at once
Stop ==
    /\ pool.stopCalls < MaxStops
    /\ pool' = [pool EXCEPT !.stopped = TRUE, !.stopCalls = @ + 1]
    /\ UNCHANGED allOthers

InitPool ==
    /\ MgrInit
    /\ now = 0
    /\ ctxs = <<>>
    /\ chans = <<>>
    /\ workers = {}
    /\ sub = IdleSub
NextPool ==
    \/ \E i \in 1..MaxPoolTasks : Submit(i)
    \/ WorkerTake
    \/ \E i \in 1..MaxPoolTasks : WorkerRun(i)
    \/ Stop
\* the workers keep running: a scheduled task is taken, a taken task is run
FairPool == WF_vars(WorkerTake) /\ WF_vars(\E i \in 1..MaxPoolTasks : WorkerRun(i))
SpecPool == InitPool /\ [][NextPool]_vars /\ FairPool

\* metric submits on plans with intermediates, up to the arrival of the leaf
\* responses at the intermediates: without the cleaner of the root and
\* without the results the intermediates pass on
AckPlans ==
    {p \in [ni : 1..MaxAckIntermediates, nl : 1..MaxLeaves] :
        p.ni + p.nl <= MaxAckNodes}
InitAck ==
    /\ MgrInit
    /\ now = 0
    /\ ctxs = <<>>
    /\ chans = <<>>
    /\ workers = {}
    /\ \E plan \in AckPlans : sub = [IdleSub EXCEPT !.kind = "metric", !.plan = plan]
NextHandshake == NextSubmit \/ NextAck
SpecAck == InitAck /\ [][NextHandshake]_vars

\* direct calls of SubmitIntermediateMetricTask on intermediate nodes, at
\* different times and also twice for one parent task
ImNodes == {IMNames[1], IMNames[2]}
ImParents == {FormatTaskID(Root, 1), FormatTaskID(Root, 2)}
InitIm ==
    /\ MgrInit
    /\ now = 0
    /\ ctxs = <<>>
    /\ chans = <<>>
    /\ workers = {}
    /\ sub = IdleSub
NextIm ==
    \/ \E n \in ImNodes, plan \in AckPlans, id \in ImParents :
          SubIntermediate(n, plan, id)
    \/ Tick
SpecIm == InitIm /\ [][NextIm]_vars

\* one context under concurrent Receive closures (WriteResponse, then Done)
\* that keep running, next to a consumer that may never read
InitCtxTail ==
    /\ MgrInit
    /\ now = 0
    /\ sub = IdleSub
    /\ \E kind \in CtxKinds, e \in 1..MaxExpect, k \in 1..MaxCalls :
         \E f \in CallKinds(kind, k) :
            /\ ctxs = <<NewCtx(kind, e)>>
            /\ chans = <<[NewChan EXCEPT !.handed = TRUE]>>
            /\ workers = {[node |-> Root, c |-> 1, pc |-> "write", tail |-> TRUE,
                           resp |-> MkResp(CtxTaskID, "Leaf", LFNames[i], Root,
                                           RespKinds[f[i]], {LFNames[i]})] :
                          i \in 1..k}
WorkerStep ==
    \/ \E w \in workers : WBody(w)
    \/ \E w \in workers : WClose(w)
    \/ \E w \in workers : WDone(w)
NextCtxTail ==
    \/ WorkerStep
    \/ \E c \in 1..Len(ctxs) : ConsRecv(c)
    \/ \E c \in 1..Len(ctxs) : ConsLeave(c)
\* the goroutines of the worker pool are scheduled; the consumer need not be
FairWorkers == WF_vars(WorkerStep)
SpecCtxFair == InitCtxTail /\ [][NextCtxTail]_vars /\ FairWorkers

\* a metric submit to one leaf in which every goroutine keeps running: the
\* submit itself, its fanout closures (each peer send returns), the peers,
\* the Receive calls and their closures; the select of the handshake takes
\* an ack or a close that stays available.  The caller's context need not
\* ever be cancelled, and the cleaner and the clock need not run.
InitLive == Init /\ sub.kind = "metric" /\ sub.plan.nl = 1
SubStep == SubAlloc \/ SubAckStore \/ SubAckWait \/ SubStore \/ SubLeafWait
SubTakesAck == SubAckSelect /\ ~cancelled'
FairSubmit ==
    /\ WF_vars(SubStep)
    /\ WF_vars(\E t \in sub.pending, o \in SendOutcomes : SendTask(t, o))
    /\ WF_vars(SubTakesAck)
    /\ WF_vars(\E r \in sent, e \in AckErrs : ImHandle(r, e))
    /\ WF_vars(\E r \in net : Receive(r))
    /\ WF_vars(WorkerStep)
SpecLive == InitLive /\ [][Next]_vars /\ FairSubmit

\* direct calls of SendRequest and SendResponse on a node whose table holds
\* tasks, with every state of the target's stream
SendNode == IMNames[1]
SendTargets == {Root, LFNames[1]}
NextSend ==
    \/ \E id \in ImParents : SubIntermediate(SendNode, [ni |-> 1, nl |-> 1], id)
    \/ \E t \in SendTargets, cl \in Clients : SendRequest(SendNode, t, cl)
    \/ \E t \in SendTargets, cl \in Clients : SendResponse(SendNode, t, cl)
SpecSend == InitIm /\ [][NextSend]_vars

(* ====================== properties of one context ===================== *)
CtxIdx == 1..Len(ctxs)
WorkersOf(c) == {w \in workers : w.c = c}
\* every WriteResponse call made on context c has returned
AllReturned(c) == \A w \in WorkersOf(c) : w.pc \in {"done", "end", "evicted"}
NotFoundCalls(c) == {w \in WorkersOf(c) : ContainsNotFound(w.resp.errMsg)}
OkCalls(c) == {w \in WorkersOf(c) : w.resp.errMsg = "" /\ w.resp.payload.ok
                                      /\ w.resp.payload.specs # {}
                                      /\ \A i \in 1..Len(w.resp.payload.series) :
                                            w.resp.payload.series[i].hasFields}

\* C1: under any interleaving of concurrent WriteResponse calls on a context
\* of any variant (also more calls than expectResults), its channel is never
\* closed twice and nothing is sent on it after it was closed.
C1_CloseOnceNoSendAfterClose ==
    \A c \in CtxIdx : chans[c].closes <= 1 /\ ~chans[c].panic

\* a call ran on a context whose channel was already closed
C1_Witness ==
    \E c \in CtxIdx : /\ chans[c].closes = 1
                       /\ ctxs[c].expectResults < 0
                       /\ Cardinality(WorkersOf(c)) >= 3
                       /\ AllReturned(c)

\* C5: a metric context created with k expected responses that got exactly k
\* responses, m of them "not found" and the rest successful, offered exactly
\* one event: the aggregation of the successful ones without error when
\* m <= k-1, an error containing "not found" when m = k.
C5_NotFoundTolerance ==
    \A c \in CtxIdx :
        ( /\ ctxs[c].kind = "metric"
          /\ AllReturned(c)
          /\ ctxs[c].expectResults = 0
          /\ WorkersOf(c) = NotFoundCalls(c) \cup OkCalls(c) )
        => /\ Len(chans[c].offered) = 1
           /\ IF OkCalls(c) # {}
              THEN /\ chans[c].offered[1].err = ""
                   /\ chans[c].offered[1].series = {w.resp.from : w \in OkCalls(c)}
              ELSE ContainsNotFound(chans[c].offered[1].err)

\* k = 2, one "not found" and one successful response, both processed
C5_Witness ==
    \E c \in CtxIdx :
        /\ ctxs[c].kind = "metric" /\ AllReturned(c) /\ ctxs[c].expectResults = 0
        /\ Cardinality(NotFoundCalls(c)) = 1 /\ Cardinality(OkCalls(c)) = 1
        /\ Cardinality(WorkersOf(c)) = 2
        /\ Len(chans[c].offered) = 1

\* C7: once a metric context offered an error event, the call that offered
\* it closes the channel, and no later event is offered on the channel.
C7_ErrorEventIsTerminal ==
    \A c \in CtxIdx :
        ctxs[c].kind = "metric" =>
            \A i \in 1..Len(chans[c].offered) :
                chans[c].offered[i].err # "" =>
                    /\ i = Len(chans[c].offered)
                    /\ (ctxs[c].mu \/ chans[c].closes = 1)

(* ====================== properties of the manager ===================== *)
LeafSent == \E r \in sentLog : r.ttype = "Leaf"
\* no operation of a manager is in flight
Quiescent ==
    /\ sub.pc \in {"idle", "returned"}
    /\ cleaner = <<>>
    /\ \A w \in workers : w.pc \in {"end", "evicted"}
\* nothing more can reach a manager
Finished == Quiescent /\ sent = {} /\ net = {}

\* C2: in SubmitMetricTask on a plan with intermediates, a Leaf-typed request
\* is sent only after an Intermediate-typed request was sent to every
\* intermediate and ensureIntermediateAckTasks returned nil.
C2_NoLeafBeforeHandshake ==
    (sub.kind = "metric" /\ sub.plan.ni > 0 /\ LeafSent) =>
        /\ \A i \in Intermediates(sub.plan) :
              \E r \in sentLog : r.ttype = "Intermediate" /\ r.to = i
        /\ sub.ackCtx # 0
        /\ chans[sub.ackCtx].got = <<NilErr>>
        /\ sub.pc \in {"leafWg", "returned"}

\* a leaf request of a plan with two intermediates was sent
C2_Witness ==
    sub.kind = "metric" /\ sub.plan.ni = MaxAckIntermediates /\ LeafSent

\* C3: with intermediates that register with SubmitIntermediateMetricTask
\* before their single ack, at the moment a leaf request is sent every
\* intermediate's table holds a context under the root task id that is not
\* done, and no intermediate ever omits a response as unknown.
C3_IntermediatesReadyAtLeafSend ==
    /\ [](\A i \in Intermediates(sub.plan) : stats[i].OmitResponse = 0)
    /\ [][(\E r \in sentLog' \ sentLog : r.ttype = "Leaf")
            => \A i \in Intermediates(sub.plan) :
                  /\ Get(i, sub.taskID) # 0
                  /\ ~Done(ctxs[Get(i, sub.taskID)])]_vars

\* each of two intermediates accepted the response of a leaf
C3_Witness ==
    /\ sub.plan.ni = MaxAckIntermediates /\ LeafSent
    /\ \A i \in Intermediates(sub.plan) : stats[i].EmitResponse >= 1

\* C4: on a plan without intermediates whose sends all succeeded and whose
\* leaves all replied successfully, a consumer that sees the channel closed
\* has received exactly one event before, the merged result of all leaves.
C4_LeafOnlySuccessDelivers ==
    ( /\ sub.kind = "metric" /\ sub.plan.ni = 0
      /\ sub.pc = "returned" /\ sub.retErr = ""
      /\ WorkersOf(sub.ctx) = OkCalls(sub.ctx)
      /\ chans[sub.ctx].sawClose )
    => /\ Len(chans[sub.ctx].got) = 1
       /\ chans[sub.ctx].got[1].err = ""
       /\ chans[sub.ctx].got[1].series = Leaves(sub.plan)

C8_UnknownTaskIDOmitted ==
    [][\A r \in net :
          (net' = net \ {r} /\ Get(r.to, r.taskID) = 0) =>
             /\ recvLog' = [recvLog EXCEPT !.errs = @ + 1]
             /\ stats' = [stats EXCEPT ![r.to].OmitResponse = @ + 1]
             /\ tasks' = tasks
             /\ workers' = workers]_vars

\* a response for an evicted task was received
C8_Witness == recvLog.errs >= 1 /\ stats[Root].OmitResponse >= 1

\* C9: the i-th call of AllocTaskID returns <node>-<i>: the ids are pairwise
\* different and their sequence numbers increase from 1.
C9_AllocTaskIDUnique ==
    /\ \A i \in 1..Len(allocated) : allocated[i] = FormatTaskID(Root, i)
    /\ \A i, j \in 1..Len(allocated) : i # j => allocated[i] # allocated[j]
    /\ sub.pc # "idle" => \E i \in 1..Len(allocated) : sub.taskID = allocated[i]

\* the submit and the other callers all allocated
C9_Witness == Len(allocated) = MaxAlloc + 1 /\ sub.pc = "returned"

\* C10 as stated: at a quiescent point CreatedTasks = AliveTask + ExpireTasks
\* + the number of tasks evicted because they were Done.
C10_CreatedAliveExpiredDone ==
    Quiescent => \A n \in Nodes :
        stats[n].CreatedTasks =
            stats[n].AliveTask + stats[n].ExpireTasks + extra.doneEvict[n]

\* C10: at a quiescent point CreatedTasks = AliveTask + ExpireTasks + the
\* number of evictTask calls that removed an entry, after a Done observation
\* or on a send failure or at the end of ensureIntermediateAckTasks.
C10_CreatedAliveExpiredEvicted ==
    Quiescent => \A n \in Nodes :
        stats[n].CreatedTasks =
            stats[n].AliveTask + stats[n].ExpireTasks
              + extra.doneEvict[n] + extra.otherEvict[n]

\* a task expired, another was evicted as Done
C10_Witness ==
    /\ Quiescent
    /\ stats[Root].ExpireTasks >= 1
    /\ extra.doneEvict[Root] + extra.otherEvict[Root] >= 1

\* the Intermediate-typed request reached the stream of every intermediate
AllIntermediatesSent ==
    \A i \in Intermediates(sub.plan) :
        \E r \in sentLog : r.ttype = "Intermediate" /\ r.to = i

\* C11: when the caller's context is cancelled during the wait for the acks,
\* SubmitMetricTask returns ErrTimeout and no channel, the ack context is not
\* in the task table any more, no metric context was registered at the root
\* and no Leaf-typed request was sent; and with no ack received the wait can
\* only end with ErrTimeout.
C11_TimeoutEvictsAndSendsNoLeaf ==
    /\ cancelled =>
          /\ sub.pc = "returned"
          /\ sub.retErr = ErrTimeout
          /\ sub.retCh = 0
          /\ tasks[Root] = {}
          /\ sub.ctx = 0
          /\ ~LeafSent
    /\ (sub.pc = "ackSelect" /\ recvLog.oks = 0) => AckSelectResults = {ErrTimeout}

\* every intermediate send succeeded, no intermediate replied, and the submit
\* returned after the cancellation
C11_Witness ==
    /\ cancelled
    /\ sub.plan.ni = MaxAckIntermediates
    /\ AllIntermediatesSent
    /\ sub.sendErr = ""
    /\ recvLog.oks = 0 /\ recvLog.errs = 0
    /\ sub.pc = "returned"

\* C12: when every intermediate send succeeded, every ack that came in had an
\* empty ErrMsg and the caller's context was not cancelled, a SubmitMetricTask
\* that has returned went through the handshake and on to the leaf fanout.
C12_HandshakeSucceeds ==
    ( /\ sub.kind = "metric" /\ sub.plan.ni > 0
      /\ sub.pc = "returned"
      /\ AllIntermediatesSent
      /\ ~cancelled
      /\ \A w \in WorkersOf(sub.ackCtx) : w.resp.errMsg = "" )
    => /\ sub.ctx # 0
       /\ sub.retCh = sub.ctx
       /\ sub.retErr # MissingAcksMsg

\* a leaf fanout of SubmitMetricTask has returned with a send error
LeafFanoutFailed ==
    sub.kind = "metric" /\ sub.pc = "returned" /\ sub.ctx # 0 /\ sub.retErr # ""

\* C13 as stated: when only some leaf sends failed, the metric context of a
\* plan without intermediates stays registered (no cleaner sweep took it).
C13_PartialFailureKeepsTask ==
    ( /\ LeafFanoutFailed /\ LeafSent
      /\ sub.plan.ni = 0
      /\ stats[Root].ExpireTasks = 0 /\ cleaner = <<>> )
    => Get(Root, sub.taskID) # 0

\* C13: SubmitMetricTask evicts the task as soon as one leaf send failed: the
\* channel is still returned, the context is not registered any more, and on
\* a plan without intermediates the responses of the leaves that were reached
\* never complete it (its channel stays open).
C13_AnyFailureEvictsTask ==
    LeafFanoutFailed =>
        /\ sub.retCh = sub.ctx
        /\ Get(Root, sub.taskID) = 0
        /\ sub.plan.ni = 0 =>
              /\ ctxs[sub.ctx].expectResults > 0
              /\ chans[sub.ctx].closes = 0

\* one of two leaf sends failed, and the response of the other leaf was
\* omitted after the eviction
C13_Witness ==
    /\ LeafFanoutFailed /\ LeafSent
    /\ sub.plan.ni = 0 /\ sub.plan.nl = MaxLeaves
    /\ stats[Root].OmitResponse >= 1

\* the leaf fanout of SubmitMetricTask has returned
LeafFanoutReturned == sub.kind = "metric" /\ sub.pc = "returned" /\ sub.ctx # 0

ReceiveStep(r) == r.to = Root /\ r \in net /\ net' = net \ {r}
\* that step returned an error and counted the response as omitted
Omitted(r) ==
    /\ Get(Root, r.taskID) = 0
    /\ stats' = omitResponse(Root)
    /\ recvLog' = [recvLog EXCEPT !.errs = @ + 1]
    /\ workers' = workers

\* C15 as stated, second half: once the cleaner evicted a task, every later
\* Receive for its id returns an error and adds one to OmitResponse.
C15_StragglersOmittedAfterExpiry ==
    [][\A r \in net :
          (ReceiveStep(r) /\ stats[Root].ExpireTasks >= 1) => Omitted(r)]_vars

\* C15: every context stored in the root's table (before the clock of the
\* model stops) is eventually removed from it; and once the cleaner evicted a
\* task, a later Receive for its id is omitted with an error, unless
\* SubmitMetricTask has since stored its metric context under that id, which
\* happens only on a plan with intermediates.
C15_EventuallyRemovedThenOmitted ==
    /\ (\E p \in tasks[Root] : ctxs[p[2]].createTime < MaxTime)
          ~> (tasks[Root] = {})
    /\ [][\A r \in net :
            (ReceiveStep(r) /\ stats[Root].ExpireTasks >= 1) =>
               \/ Omitted(r)
               \/ /\ sub.plan.ni > 0
                  /\ Get(Root, r.taskID) = sub.ctx
                  /\ ctxs[sub.ctx].kind = "metric"]_vars

\* the cleaner evicted the task and a straggler response was omitted
C15_Witness ==
    /\ stats[Root].ExpireTasks >= 1
    /\ stats[Root].OmitResponse >= 1
    /\ stats[Root].EmitResponse = 0
    /\ tasks[Root] = {}

\* C16 as stated, second half: once a closure observed Done and evicted the
\* task, every later Receive for its id is omitted with an error.
C16_OmittedAfterDoneEviction ==
    [][\A r \in net :
          (ReceiveStep(r) /\ extra.doneEvict[Root] >= 1) => Omitted(r)]_vars

\* C16: a context of the root that got all its expected responses is in the
\* table only while one of its closures has still to look at Done; the
\* closure that observes Done
\* leaves the id absent; and a Receive for the id after such an eviction is
\* omitted with an error, unless SubmitMetricTask has since stored its metric
\* context under the id its ack context used.
C16_EvictedOnDoneThenOmitted ==
    /\ [](\A p \in tasks[Root] :
            ctxs[p[2]].expectResults <= 0 =>
               \E w \in WorkersOf(p[2]) : w.pc \in {"write", "close", "done"})
    /\ [][\A w \in workers :
            (w.node = Root /\ w.pc = "done" /\ workers' = SetWorker(w, "evicted"))
               => /\ ctxs[w.c].expectResults <= 0
                  /\ ~\E p \in tasks'[Root] : p[1] = w.resp.taskID]_vars
    /\ [][\A r \in net :
            (ReceiveStep(r) /\ extra.doneEvict[Root] >= 1) =>
               \/ Omitted(r)
               \/ /\ sub.plan.ni > 0
                  /\ Get(Root, r.taskID) = sub.ctx
                  /\ ctxs[sub.ctx].kind = "metric"]_vars

\* on a plan without intermediates the task was evicted as Done and a
\* straggler for its id was omitted afterwards
C16_Witness ==
    /\ sub.plan.ni = 0
    /\ extra.doneEvict[Root] = 1
    /\ stats[Root].OmitResponse >= 1
    /\ stats[Root].SentRequestFailures = 0

\* C17: a MetaDataTaskContext with expectResults = n whose n WriteResponse
\* calls have all returned has forwarded every one of the n responses to its
\* channel's reader, and has closed the channel, whatever the interleaving
\* of the calls with the reads of the single consumer.
C17_MetaForwardsAllAndCloses ==
    \A c \in CtxIdx :
       (/\ ctxs[c].kind = "meta"
        /\ ctxs[c].expectResults = 0      \* as many calls as expected results
        /\ WorkersOf(c) # {}
        /\ AllReturned(c))
       => /\ Len(chans[c].got) = Cardinality(WorkersOf(c))
          /\ {chans[c].got[i] : i \in 1..Len(chans[c].got)} =
                {w.resp : w \in WorkersOf(c)}
          /\ chans[c].closes = 1

(* ======================== properties of the pool ====================== *)
PoolTasks == 1..MaxPoolTasks
PoolQueued == {pool.queue[k] : k \in 1..Len(pool.queue)}
PoolAccepted == (1..pool.submitted) \ pool.rejected
PoolExecutions == Cardinality({i \in PoolTasks : pool.runs[i] >= 1})

\* C18: a Stop on a stopped pool changes nothing of the pool; a task
\* submitted after a Stop is rejected and never scheduled or run; no task runs
\* twice; once the workers are idle the executions are exactly the tasks
\* submitted before the Stop; and every accepted task is eventually run.
C18_StopIdempotentRejectsAndDrains ==
    /\ [][(pool.stopped /\ pool'.stopCalls = pool.stopCalls + 1) =>
             pool' = [pool EXCEPT !.stopCalls = @ + 1]]_vars
    /\ [](\A i \in PoolTasks :
            /\ pool.runs[i] <= 1
            /\ i \in pool.afterStop =>
                 /\ i \in pool.rejected
                 /\ pool.runs[i] = 0
                 /\ i \notin PoolQueued \cup pool.running)
    /\ []((pool.queue = <<>> /\ pool.running = {}) =>
             /\ PoolExecutions = pool.submitted - Cardinality(pool.afterStop)
             /\ \A i \in PoolTasks : pool.runs[i] = 1 <=> i \in PoolAccepted)
    /\ \A i \in PoolTasks : (i \in PoolAccepted) ~> (pool.runs[i] = 1)

\* half of the tasks were submitted before the first of two Stop calls, half
\* after the second; the first half ran, the second half was rejected
C18_Witness ==
    /\ pool.stopCalls = 2
    /\ pool.submitted = MaxPoolTasks
    /\ Cardinality(pool.afterStop) = 2
    /\ pool.rejected = pool.afterStop
    /\ PoolExecutions = 2
    /\ pool.queue = <<>> /\ pool.running = {}

(* ============ properties of SubmitIntermediateMetricTask ============== *)
\* the context index a table holds under a key, 0 when the key is absent
Lookup(table, taskID) ==
    IF \E p \in table : p[1] = taskID
    THEN (CHOOSE p \in table : p[1] = taskID)[2]
    ELSE 0

\* C19: a call SubmitIntermediateMetricTask(ctx, plan, query, parentTaskID)
\* leaves in the task table of its node, under key parentTaskID (replacing
\* what the key held, touching no other key), a metric context with taskID =
\* parentTaskID, taskType IntermediateTask, parentNode = the plan's root and
\* expectResults = tolerantNotFounds = len(plan.Leaves); it returns that
\* context's new, open channel; it sends no request and no response, starts
\* no closure, and can always be taken (it never blocks).
C19_SubmitIntermediateFrame ==
    /\ [][(sub'.kind = "intermediate" /\ Len(ctxs') > Len(ctxs)) =>
            LET new == Len(ctxs) + 1
                c == ctxs'[new]
                id == sub'.taskID
            IN  /\ sub'.retCh = new
                /\ \E n \in Nodes :
                     /\ Lookup(tasks'[n], id) = new
                     /\ {p \in tasks'[n] : p[1] # id} = {p \in tasks[n] : p[1] # id}
                     /\ \A m \in Nodes \ {n} : tasks'[m] = tasks[m]
                /\ c.kind = "metric"
                /\ c.taskID = id
                /\ c.taskType = "IntermediateTask"
                /\ c.parentNode = Root
                /\ c.expectResults = sub'.plan.nl
                /\ c.tolerantNotFounds = sub'.plan.nl
                /\ ~c.closed
                /\ chans'[new].closes = 0 /\ chans'[new].offered = <<>>
                /\ \A k \in 1..Len(ctxs) : ctxs'[k] = ctxs[k] /\ chans'[k] = chans[k]
                /\ net' = net /\ sent' = sent /\ sentLog' = sentLog
                /\ workers' = workers]_vars
    /\ [](Len(ctxs) < MaxImCalls =>
            \A n \in ImNodes, plan \in AckPlans, id \in ImParents :
               ENABLED SubIntermediate(n, plan, id))

\* a second call for the same parent task on the same node replaced the
\* first context under the key, on a plan with two leaves
C19_Witness ==
    /\ sub.kind = "intermediate"
    /\ sub.pc = "returned"
    /\ sub.plan.nl = 2
    /\ Len(ctxs) = 2
    /\ ctxs[1].taskID = ctxs[2].taskID
    /\ \E n \in ImNodes : tasks[n] = {<<sub.taskID, 2>>}
    /\ net = {} /\ sentLog = {}

(* ================== properties of SubmitMetaDataTask ================== *)
\* SubmitMetaDataTask has returned
MetaReturned == sub.kind = "meta" /\ sub.pc = "returned"
\* the request SubmitMetaDataTask sends to leaf l
MetaReq(l) == MkReq(l, "Unset", "Metadata", sub.taskID, sub.plan)

\* C20 as stated, last part: the step in which SubmitMetaDataTask returns
\* after a fanout without a send failure gives a nil error and leaves the task
\* registered (no cleaner sweep took it).
C20_MetaNoFailureKeepsTask ==
    [][( /\ sub.kind = "meta" /\ sub.pc = "leafWg" /\ sub'.pc = "returned"
         /\ stats[Root].SentRequestFailures = 0
         /\ stats[Root].ExpireTasks = 0 /\ cleaner = <<>> )
       => /\ sub'.retErr = ""
          /\ \E p \in tasks'[Root] : p[1] = sub.taskID]_vars

\* C20: SubmitMetaDataTask stores a metadata context with expectResults =
\* plan.Root.NumOfTask under a newly allocated id while no request has been
\* sent; every request it sends is Metadata-typed, for that id, to a leaf of
\* the plan, one send per leaf; it always returns the context's channel; with
\* a failed send it returns one of the send errors and the id is absent from
\* the table; without one it returns a nil error, every leaf got its request,
\* and it has not evicted the task, which is registered unless its responses
\* completed it or the cleaner expired it.
C20_MetaSubmitRegistersSendsReturns ==
    /\ [][(sub.kind = "meta" /\ sub.pc = "store" /\ sub'.pc # "store") =>
            LET c == Lookup(tasks'[Root], sub.taskID)
            IN  /\ sentLog = {} /\ sentLog' = {}
                /\ Lookup(tasks[Root], sub.taskID) = 0
                /\ Cardinality({i \in 1..Len(allocated) :
                                  allocated[i] = sub.taskID}) = 1
                /\ c = Len(ctxs) + 1
                /\ ctxs'[c].kind = "meta"
                /\ ctxs'[c].taskID = sub.taskID
                /\ ctxs'[c].expectResults = NumOfTask(sub.plan)]_vars
    /\ [](sub.kind = "meta" =>
            /\ sentLog \subseteq {MetaReq(l) : l \in Leaves(sub.plan)}
            /\ Cardinality(sentLog) = stats[Root].SentRequest)
    /\ [](MetaReturned =>
            /\ sub.ctx # 0 /\ sub.retCh = sub.ctx
            /\ stats[Root].SentRequest + stats[Root].SentRequestFailures
                  = sub.plan.nl
            /\ IF stats[Root].SentRequestFailures > 0
               THEN /\ sub.retErr \in {ErrNoSendStream, ErrTaskSend}
                    /\ Get(Root, sub.taskID) = 0
               ELSE /\ sub.retErr = ""
                    /\ sentLog = {MetaReq(l) : l \in Leaves(sub.plan)}
                    /\ extra.otherEvict[Root] = 0
                    /\ \/ Get(Root, sub.taskID) = sub.ctx
                       \/ Done(ctxs[sub.ctx])
                       \/ stats[Root].ExpireTasks >= 1)

\* a metadata submit to two leaves returned without a send failure and its
\* task is registered
C20_Witness ==
    /\ MetaReturned
    /\ sub.plan.nl = MaxLeaves
    /\ stats[Root].SentRequest = MaxLeaves
    /\ sub.retErr = ""
    /\ Get(Root, sub.taskID) = sub.ctx

(* ============= properties of SendRequest and SendResponse ============= *)
\* the counters of node n other than c1 and c2 are unchanged in this step
OtherCountersKept(n, c1, c2) ==
    \A f \in DOMAIN ZeroStats \ {c1, c2} : stats'[n][f] = stats[n][f]

\* C21: a SendRequest call returns ErrNoSendStream when the factory has no
\* stream for the target, ErrTaskSend when the stream's Send fails, nil
\* otherwise; a SendResponse call returns ErrNoSendStream, ErrResponseSend
\* or nil in the same cases.  Each call adds one to exactly one counter of
\* its node, SentRequest (SentResponses) on success and SentRequestFailures
\* (SentResponseFailures) on a failure, puts the message on the stream only
\* on success, and leaves the task tables and contexts as they were.
C21_SendCountsOnceAndKeepsTable ==
    [][\A n \in Nodes :
         (sub'.kind \in {"SendRequest", "SendResponse"} /\ sub'.pending = {n}
            /\ stats' # stats) =>
           LET isReq == sub'.kind = "SendRequest"
               okC == IF isReq THEN "SentRequest" ELSE "SentResponses"
               failC == IF isReq THEN "SentRequestFailures"
                        ELSE "SentResponseFailures"
               sendFail == IF isReq THEN ErrTaskSend ELSE ErrResponseSend
           IN  /\ sub'.retErr = (CASE sub'.client = "nil" -> ErrNoSendStream
                                   [] sub'.client = "broken" -> sendFail
                                   [] OTHER -> "")
               /\ IF sub'.retErr = ""
                  THEN /\ stats'[n][okC] = stats[n][okC] + 1
                       /\ stats'[n][failC] = stats[n][failC]
                       /\ Cardinality(sent') + Cardinality(net')
                             >= Cardinality(sent) + Cardinality(net)
                  ELSE /\ stats'[n][failC] = stats[n][failC] + 1
                       /\ stats'[n][okC] = stats[n][okC]
                       /\ sent' = sent /\ net' = net /\ sentLog' = sentLog
               /\ OtherCountersKept(n, okC, failC)
               /\ \A m \in Nodes \ {n} : stats'[m] = stats[m]
               /\ tasks' = tasks /\ ctxs' = ctxs /\ chans' = chans]_vars

\* on a node with a registered task, a SendResponse whose stream's Send
\* failed returned after a successful SendRequest and one without a stream
C21_Witness ==
    /\ sub.kind = "SendResponse"
    /\ sub.retErr = ErrResponseSend
    /\ sub.pending = {SendNode}
    /\ tasks[SendNode] # {}
    /\ stats[SendNode].SentRequest = 1
    /\ stats[SendNode].SentRequestFailures = 1
    /\ stats[SendNode].SentResponseFailures = 1

(* ============ properties of the root context after the handshake ====== *)
\* SubmitMetricTask stored its metric context after a handshake that
\* returned nil
RootStoredAfterHandshake ==
    sub.kind = "metric" /\ sub.plan.ni > 0 /\ sub.ctx # 0

\* C22: once the handshake returned nil and the root's metric context is
\* stored under rootTaskID, the context is absent from the table only when
\* it was Done, a leaf send failed, or the cleaner expired a task; the
\* closure of the last ack, which evicts rootTaskID by id, never removes it.
C22_AckClosureKeepsMetricContext ==
    (RootStoredAfterHandshake /\ Get(Root, sub.taskID) # sub.ctx) =>
        \/ Done(ctxs[sub.ctx])
        \/ stats[Root].SentRequestFailures > 0
        \/ stats[Root].ExpireTasks > 0

\* ensureIntermediateAckTasks has returned nil
HandshakeReturnedNil ==
    /\ sub.kind = "metric" /\ sub.plan.ni > 0
    /\ (sub.pc = "store" \/ sub.ctx # 0)
\* the acks the root has received from its intermediates
AcksReceived == {w.resp : w \in WorkersOf(sub.ackCtx)}

\* C23: when ensureIntermediateAckTasks has returned nil, every intermediate
\* of the plan has replied with an ack whose ErrMsg is empty; and when some
\* intermediate's ack carried a non-empty ErrMsg the handshake has not
\* succeeded and no leaf request was sent, whenever that ack was processed.
C23_NilOnlyIfAllAcksEmpty ==
    /\ HandshakeReturnedNil =>
          /\ {r.from : r \in AcksReceived} = Intermediates(sub.plan)
          /\ \A r \in AcksReceived : r.errMsg = ""
    /\ (sub.kind = "metric" /\ sub.ackCtx # 0
          /\ \E r \in AcksReceived : r.errMsg # "")
       => ~HandshakeReturnedNil /\ ~LeafSent

(* ================= termination of WriteResponse and Done ============== *)
\* the closures of context c that have not finished
Running(c) == {w \in WorkersOf(c) : w.pc \in {"write", "close", "done"}}

\* C24: whatever the consumer does (also when it never reads), every
\* WriteResponse call and the Done call after it return: as long as a closure
\* of a context has not finished some closure can take a step, all of them
\* finish eventually, and once no call is inside WriteResponse the mutex of
\* the context is free.
C24_WriteResponseTerminates ==
    /\ [](\A c \in CtxIdx : Running(c) # {} => ENABLED WorkerStep)
    /\ [](\A c \in CtxIdx :
            (\A w \in WorkersOf(c) : w.pc # "close") => ~ctxs[c].mu)
    /\ <>[](\A c \in CtxIdx : Running(c) = {})

\* all calls on a context returned and the mutex is free although its
\* consumer never read: the offered event was dropped, the channel closed
C24_Witness ==
    \E c \in CtxIdx :
       /\ Cardinality(WorkersOf(c)) >= 2
       /\ Running(c) = {}
       /\ ~ctxs[c].mu
       /\ chans[c].reader = "absent" /\ ~chans[c].sawClose
       /\ chans[c].got = <<>>
       /\ chans[c].offered # <<>>
       /\ chans[c].closes = 1

(* ===================== expectResults and closed ======================= *)
\* closure w runs the body of its WriteResponse call in this step
WriteStep(w) == w \in workers /\ w.pc = "write" /\ w \notin workers'

\* C25: expectResults of a context never increases; a WriteResponse call
\* decrements it by exactly one, also on a closed context; and on a closed
\* context the call changes nothing else of the context (stats,
\* tolerantNotFounds, aggregator specs, aggregator, closed) and nothing of
\* the channel (no event offered, no close).
C25_ExpectResultsDecreasesClosedDrops ==
    /\ [][\A c \in CtxIdx :
            ctxs'[c].expectResults <= ctxs[c].expectResults]_vars
    /\ [][\A w \in workers :
            WriteStep(w) =>
              /\ ctxs'[w.c].expectResults = ctxs[w.c].expectResults - 1
              /\ ctxs[w.c].closed =>
                   /\ ctxs'[w.c] = [ctxs[w.c] EXCEPT !.expectResults = @ - 1]
                   /\ chans'[w.c] = chans[w.c]]_vars

\* a metric context got one response more than it expected: the extra call
\* found it closed and only counted
C25_Witness ==
    \E c \in CtxIdx :
       /\ ctxs[c].kind = "metric"
       /\ ctxs[c].closed
       /\ ctxs[c].expectResults = -1
       /\ Len(chans[c].offered) = 1
       /\ AllReturned(c)
       /\ Cardinality(ctxs[c].stats) < Cardinality(WorkersOf(c))

(* ================== termination of SubmitMetricTask =================== *)
SubmitReturned == sub.pc = "returned"
\* the root waits in the select of the handshake and the ack of every
\* intermediate has been handed to Receive
AllAcksArrived ==
    /\ sub.kind = "metric" /\ sub.plan.ni > 0
    /\ sub.pc = "ackSelect"
    /\ ~\E r \in sent : r.ttype = "Intermediate"
    /\ ~\E r \in net : r.to = Root

\* C26: SubmitMetricTask returns in every execution in which each peer send
\* returns and, with intermediates, all acks arrive or the caller's context
\* is cancelled: a submit without intermediates that has started returns,
\* and a handshake whose acks have all arrived returns, also when the
\* cleaner evicted the ack context while the root was waiting.
C26_SubmitMetricTaskReturns ==
    /\ (sub.plan.ni = 0 /\ sub.pc # "idle") ~> SubmitReturned
    /\ AllAcksArrived ~> SubmitReturned

(* ======================= AliveTask and the table ====================== *)
\* C27: at every quiescent point the AliveTask counter of a node equals the
\* number of entries of its task table, after any interleaving of storeTask,
\* evictTask and cleaner sweeps.
C27_AliveTaskIsTableSize ==
    Quiescent => \A n \in Nodes : stats[n].AliveTask = Cardinality(tasks[n])

(* ========================= properties of Receive ====================== *)
\* a Receive call takes response r in this step
ReceiveCall(r) == r \in net /\ net' = net \ {r}
\* the closure Receive hands to the worker pool for r on context c
ReceiveClosure(r, c) ==
    [node |-> r.to, c |-> c, pc |-> "write", tail |-> TRUE, resp |-> r]
\* the Receive calls made so far, and the responses counted by all nodes
ReceiveCalls == recvLog.errs + recvLog.oks
RECURSIVE SumOver(_, _)
SumOver(S, field) ==
    IF S = {} THEN 0
    ELSE LET n == CHOOSE n \in S : TRUE
         IN  stats[n][field] + SumOver(S \ {n}, field)

\* C28: a Receive for a known task id adds one to EmitResponse and to no
\* other counter, returns nil, and hands a closure for the looked-up context
\* to the worker pool without running WriteResponse itself (no context, no
\* channel and no table entry changes in the call); a closure writes only to
\* the context it was given, and removes its response's task id from the
\* table only when that context is Done; OmitResponse + EmitResponse equals
\* the number of Receive calls.
C28_ReceiveEmitsAndDefers ==
    /\ [][\A r \in net :
            (ReceiveCall(r) /\ Get(r.to, r.taskID) # 0) =>
               /\ stats' = [stats EXCEPT ![r.to].EmitResponse = @ + 1]
               /\ recvLog' = [recvLog EXCEPT !.oks = @ + 1]
               /\ workers' = workers \cup
                     {ReceiveClosure(r, Get(r.to, r.taskID))}
               /\ ctxs' = ctxs /\ chans' = chans /\ tasks' = tasks]_vars
    /\ [][\A w \in workers :
            (w.tail /\ w \notin workers') =>
               /\ \A c \in CtxIdx \ {w.c} :
                     ctxs'[c] = ctxs[c] /\ chans'[c] = chans[c]
               /\ tasks' # tasks =>
                     /\ w.pc = "done"
                     /\ ctxs[w.c].expectResults <= 0
                     /\ tasks' = [tasks EXCEPT ![w.node] =
                                    {p \in @ : p[1] # w.resp.taskID}]]_vars
    /\ [](SumOver(Nodes, "OmitResponse") + SumOver(Nodes, "EmitResponse")
             = ReceiveCalls)

\* two responses of a task were received and processed, the closure of the
\* first left the task in the table, the closure of the second evicted it
C28_Witness ==
    /\ recvLog.oks >= 2
    /\ stats[Root].EmitResponse >= 2
    /\ \E w1, w2 \in workers :
          /\ w1.node = Root /\ w2.node = Root
          /\ w1.c = w2.c
          /\ w1.pc = "end" /\ w2.pc = "evicted"

(* ==================== properties of the cleaner ======================= *)
\* the cleaner's Range callback deletes the key it visited in this step
SweepStep == cleaner # <<>> /\ cleaner' = <<>>
\* the entries of the root's table that this step removes
Removed == tasks[Root] \ tasks'[Root]

\* C29: a cleaner sweep removes only contexts for which Expired(ttl) is true
\* (now - createTime strictly greater than ttl), adds one to ExpireTasks and
\* takes one from AliveTask per removed context, and changes no context and
\* no channel; a cancellation of the caller's context closes no channel.
C29_SweepRemovesOnlyExpired ==
    /\ [][SweepStep =>
            /\ \A p \in Removed : now - ctxs[p[2]].createTime > TTL
            /\ stats'[Root].ExpireTasks
                  = stats[Root].ExpireTasks + Cardinality(Removed)
            /\ stats'[Root].AliveTask
                  = stats[Root].AliveTask - Cardinality(Removed)
            /\ ctxs' = ctxs /\ chans' = chans]_vars
    /\ [][(~cancelled /\ cancelled') =>
            \A c \in CtxIdx : chans'[c].closes = chans[c].closes]_vars

(* ================== errors of the ack handshake ======================= *)
\* the select of ensureIntermediateAckTasks has fired
AckSelectDone ==
    sub.kind = "metric" /\ sub.ackCtx # 0 /\ chans[sub.ackCtx].reader = "gone"

\* C30: an ack with a non-empty ErrMsg written to an open ack context is
\* offered on the ack channel, and is taken by the root exactly when the root
\* is blocked on the channel; a root that received an error returns it from
\* the handshake, and a root that saw the channel closed without a value
\* (and was not cancelled) returns the "missing acks" error; in both cases
\* SubmitMetricTask returns no channel with that error, the ack context is
\* not in the table, no metric context was stored and no leaf request sent.
C30_AckErrorAndMissingAcks ==
    /\ [][\A w \in workers :
            (/\ WriteStep(w) /\ ctxs[w.c].kind = "ack" /\ ~ctxs[w.c].closed
             /\ w.resp.errMsg # "") =>
               /\ chans'[w.c].offered = Append(chans[w.c].offered, w.resp.errMsg)
               /\ chans'[w.c].got =
                     IF chans[w.c].reader = "recv"
                     THEN Append(chans[w.c].got, w.resp.errMsg)
                     ELSE chans[w.c].got]_vars
    /\ [](AckSelectDone =>
            LET ch == chans[sub.ackCtx]
            IN  /\ (ch.got # <<>> /\ ch.got[1] # NilErr) =>
                      sub.retErr = ch.got[1]
                /\ (ch.got = <<>> /\ ch.sawClose /\ ~cancelled) =>
                      sub.retErr = MissingAcksMsg
                /\ (sub.retErr \in {OtherErrMsg, MissingAcksMsg}) =>
                      /\ sub.pc = "returned"
                      /\ sub.retCh = 0
                      /\ sub.ctx = 0
                      /\ tasks[Root] = {}
                      /\ ~LeafSent)

\* with two intermediates the root, blocked on the ack channel, received the
\* error of an ack and SubmitMetricTask returned it
C30_Witness ==
    /\ AckSelectDone
    /\ sub.plan.ni = MaxAckIntermediates
    /\ sub.pc = "returned"
    /\ sub.retErr = OtherErrMsg
    /\ chans[sub.ackCtx].got = <<OtherErrMsg>>
    /\ ~cancelled

\* the send of the Intermediate-typed request to intermediate i has finished
\* and failed: the closure is over and the request is on no stream
IntermediateSendFailedFor(i) ==
    /\ sub.kind = "metric" /\ sub.plan.ni > 0
    /\ sub.ackCtx # 0
    /\ i \in Intermediates(sub.plan)
    /\ ~(sub.pc = "ackWg" /\ i \in sub.pending)
    /\ ~\E r \in sentLog : r.ttype = "Intermediate" /\ r.to = i
IntermediateSendFailed == \E i \in Intermediates(sub.plan) : IntermediateSendFailedFor(i)

\* C31: once the send of the Intermediate-typed request has failed for an
\* intermediate, ensureIntermediateAckTasks returns only after every send has
\* finished and never reads the ack channel; SubmitMetricTask then returns no
\* channel and one of the send errors, the root task id is absent from the
\* table, no metric context was created at the root and no Leaf-typed request
\* was sent.
C31_IntermediateSendFailure ==
    /\ [](IntermediateSendFailed =>
            /\ sub.pc \in {"ackWg", "returned"}
            /\ chans[sub.ackCtx].reader = "absent"
            /\ chans[sub.ackCtx].got = <<>>
            /\ ~chans[sub.ackCtx].sawClose
            /\ sub.ctx = 0
            /\ \A c \in CtxIdx : ctxs[c].kind = "metric" => ctxs[c].taskType # "RootTask"
            /\ ~LeafSent
            /\ sub.pc = "returned" =>
                  /\ sub.retCh = 0
                  /\ sub.retErr \in {ErrNoSendStream, ErrTaskSend}
                  /\ Get(Root, sub.taskID) = 0
                  /\ ~\E p \in tasks[Root] : p[2] = sub.ackCtx)
    /\ [][(IntermediateSendFailed' /\ sub.pc = "ackWg" /\ sub'.pc = "returned")
            => sub.pending = {}]_vars

\* of two intermediates one got the request and acked, the send to the other
\* failed, and the submit has returned
C31_Witness ==
    /\ IntermediateSendFailed
    /\ sub.plan.ni = MaxAckIntermediates
    /\ \E r \in sentLog : r.ttype = "Intermediate"
    /\ recvLog.oks + recvLog.errs >= 1
    /\ sub.pc = "returned"

\* closure w runs the body of WriteResponse on an open metric context, so
\* handleTaskResponse and checkError are called in this step
HandleStep(w) ==
    /\ WriteStep(w)
    /\ ctxs[w.c].kind = "metric"
    /\ ~ctxs[w.c].closed
\* the events the step of w offers on the channel of its context
OfferedBy(w) ==
    SubSeq(chans'[w.c].offered, Len(chans[w.c].offered) + 1,
           Len(chans'[w.c].offered))

\* C32: in a WriteResponse on an open metric context, an ErrMsg without "not
\* found" is offered as an error event in that call and leaves
\* tolerantNotFounds as it was, whatever its value; an ErrMsg with "not found"
\* lowers tolerantNotFounds by exactly one and, while the lowered value is
\* above zero, raises no error and adds nothing to the aggregator or its
\* specs; an empty ErrMsg leaves tolerantNotFounds as it was.
C32_CheckErrorCases ==
    [][\A w \in workers : HandleStep(w) =>
          LET c == ctxs[w.c]
              d == ctxs'[w.c]
              msg == w.resp.errMsg
          IN  /\ (msg # "" /\ ~ContainsNotFound(msg)) =>
                    /\ d.tolerantNotFounds = c.tolerantNotFounds
                    /\ Len(OfferedBy(w)) = 1
                    /\ OfferedBy(w)[1].err = msg
                    /\ d.agg = c.agg /\ d.specs = c.specs
              /\ ContainsNotFound(msg) =>
                    /\ d.tolerantNotFounds = c.tolerantNotFounds - 1
                    /\ d.agg = c.agg /\ d.specs = c.specs /\ d.aggBuilt = c.aggBuilt
                    /\ IF d.tolerantNotFounds > 0
                       THEN \A i \in 1..Len(OfferedBy(w)) : OfferedBy(w)[i].err = ""
                       ELSE Len(OfferedBy(w)) = 1 /\ OfferedBy(w)[1].err = msg
              /\ msg = "" => d.tolerantNotFounds = c.tolerantNotFounds]_vars

\* a context expecting two responses tolerated a "not found" and surfaced
\* another error, with one unit of tolerance spent
C32_Witness ==
    \E c \in CtxIdx :
        /\ ctxs[c].kind = "metric" /\ AllReturned(c)
        /\ Cardinality(WorkersOf(c)) = 2
        /\ Cardinality(NotFoundCalls(c)) = 1
        /\ \E w \in WorkersOf(c) : w.resp.errMsg = OtherErrMsg
        /\ ctxs[c].tolerantNotFounds = 1
        /\ \E i \in 1..Len(chans[c].offered) : chans[c].offered[i].err = OtherErrMsg

\* the body of WriteResponse run by w on a metric or ack context leaves the
\* deferred close decision with expectResults at zero or below: this call
\* will close the channel
ClosingBody(w) ==
    /\ WriteStep(w)
    /\ ctxs[w.c].kind # "meta"
    /\ ctxs'[w.c].mu
    /\ ShouldClose(ctxs'[w.c])
\* a step closes the channel of context c
ClosesChan(c) == chans'[c].closes > chans[c].closes

\* C33: the channel of a metric or ack context is closed only by a
\* WriteResponse call that holds the mutex and that offered one value on the
\* channel before, in the same call: an error event or the merged result, an
\* ack error or nil.  A consumer blocked in its receive when that call runs
\* takes the value, and the channel is not yet closed at that moment.
C33_CloseFollowsTerminalOffer ==
    /\ [][\A w \in workers : ClosingBody(w) =>
            /\ Len(OfferedBy(w)) = 1
            /\ chans'[w.c].closes = 0
            /\ IF ctxs[w.c].kind = "ack"
               THEN OfferedBy(w)[1] \in {NilErr, w.resp.errMsg}
               ELSE OfferedBy(w)[1] \in {ErrEvent(ctxs'[w.c], OfferedBy(w)[1].err),
                                         ResultEvent(ctxs'[w.c])}
            /\ chans[w.c].reader = "recv" =>
                  /\ chans'[w.c].got = Append(chans[w.c].got, OfferedBy(w)[1])
                  /\ ~chans'[w.c].sawClose]_vars
    /\ [][\A c \in CtxIdx : (ClosesChan(c) /\ ctxs[c].kind # "meta") =>
            /\ ctxs[c].mu
            /\ \E w \in WorkersOf(c) : w.pc = "close"
            /\ chans'[c].offered = chans[c].offered
            /\ chans[c].offered # <<>>]_vars

\* a blocked consumer of a metric or ack context took the single value that
\* was offered and then saw the channel closed
C33_Witness ==
    \E c \in CtxIdx :
        /\ ctxs[c].kind # "meta"
        /\ Len(chans[c].offered) = 1
        /\ chans[c].got = chans[c].offered
        /\ chans[c].sawClose
        /\ chans[c].closes = 1

\* the responses handleTaskResponse has processed on context c once the
\* step is over (those that found it open)
Handled(c) == {w \in workers' : w.c = c /\ w.pc # "write"}
\* the series a response hands to groupAgg.Aggregate: those before the first
\* one without fields, of a decoded response with aggregator specs and no
\* error message
SeriesOf(resp) ==
    IF resp.errMsg = "" /\ resp.payload.ok /\ resp.payload.specs # {}
    THEN AggregateSeries({}, resp.payload.series)
    ELSE {}

\* the FieldAggSpecs a response registers in c.aggregatorSpecs
SpecsOf(resp) ==
    IF resp.errMsg = "" /\ resp.payload.ok THEN resp.payload.specs ELSE {}

\* C34: a merged-result event (no error) is offered on the channel of a
\* metric context only by a WriteResponse call that leaves expectResults at
\* zero or below, and at most once per context; its series are what the
\* aggregator got from this response and from every response processed
\* before, and its stats are merged from all of them.
C34_MergedResultOnceAndComplete ==
    /\ [](\A c \in CtxIdx : ctxs[c].kind = "metric" =>
            Cardinality({i \in 1..Len(chans[c].offered) :
                            chans[c].offered[i].err = ""}) <= 1)
    /\ [][\A w \in workers : \A i \in 1..Len(OfferedBy(w)) :
            (HandleStep(w) /\ OfferedBy(w)[i].err = "") =>
               /\ ctxs'[w.c].expectResults <= 0
               /\ OfferedBy(w)[i].series =
                     UNION {SeriesOf(v.resp) : v \in Handled(w.c)}
               /\ OfferedBy(w)[i].stats = {v.resp.from : v \in Handled(w.c)}
               /\ OfferedBy(w)[i].specs =
                     UNION {SpecsOf(v.resp) : v \in Handled(w.c)}]_vars

\* a merged result of two leaves was offered, with the stats of both
C34_Witness ==
    \E c \in CtxIdx : \E i \in 1..Len(chans[c].offered) :
        /\ ctxs[c].kind = "metric"
        /\ chans[c].offered[i].err = ""
        /\ Cardinality(chans[c].offered[i].series) = 2
        /\ Cardinality(chans[c].offered[i].stats) = 2
        /\ ctxs[c].expectResults < 0

\* the responses processed on context c before the step
HandledBefore(c) == {w \in workers : w.c = c /\ w.pc # "write"}

\* C35: a metric context constructs its grouping aggregator at most once, in
\* the call of the first response without error message and with aggregator
\* specs; later responses aggregate into the same instance; a response that
\* has no aggregator specs, or a "not found" or another error, constructs no
\* aggregator and registers no spec, and still lowers expectResults by one.
C35_AggregatorBuiltOnce ==
    /\ [](\A c \in CtxIdx : ctxs[c].aggBuilt <= 1)
    /\ [][\A w \in workers : HandleStep(w) =>
            LET c == ctxs[w.c]
                d == ctxs'[w.c]
            IN  /\ d.expectResults = c.expectResults - 1
                /\ d.aggBuilt # c.aggBuilt =>
                      /\ c.aggBuilt = 0 /\ d.aggBuilt = 1
                      /\ w.resp.errMsg = "" /\ w.resp.payload.specs # {}
                      /\ \A v \in HandledBefore(w.c) : SpecsOf(v.resp) = {}
                /\ (c.aggBuilt = 1 /\ SpecsOf(w.resp) # {}) =>
                      d.agg = c.agg \cup SeriesOf(w.resp)
                /\ SpecsOf(w.resp) # {} => d.aggBuilt = 1
                /\ (w.resp.payload.specs = {} \/ w.resp.errMsg # "") =>
                      /\ d.aggBuilt = c.aggBuilt
                      /\ d.specs = c.specs
                      /\ d.agg = c.agg]_vars

\* a "not found" and an empty response completed a task expecting two: the
\* channel is closed after a merged result, and no aggregator was built
C35_Witness ==
    \E c \in CtxIdx :
        /\ ctxs[c].kind = "metric" /\ AllReturned(c)
        /\ Cardinality(WorkersOf(c)) = 2
        /\ Cardinality(NotFoundCalls(c)) = 1
        /\ \A w \in WorkersOf(c) : w.resp.payload.specs = {} /\ w.resp.payload.ok
        /\ ctxs[c].expectResults = 0
        /\ chans[c].closes = 1
        /\ ctxs[c].aggBuilt = 0
        /\ Len(chans[c].offered) = 1 /\ chans[c].offered[1].err = ""

\* a decoded response with aggregator specs, one of whose series has no fields
HasEmptyFields(resp) ==
    /\ resp.errMsg = "" /\ resp.payload.ok
    /\ \E i \in 1..Len(resp.payload.series) : ~resp.payload.series[i].hasFields

\* C36: a WriteResponse on an open metric context whose decoded response
\* holds a series without fields aggregates none of the series of that
\* response, raises no error, and lowers expectResults by one.
C36_EmptyFieldsIgnoresWholeResponse ==
    [][\A w \in workers : (HandleStep(w) /\ HasEmptyFields(w.resp)) =>
          /\ ctxs'[w.c].agg = ctxs[w.c].agg
          /\ \A i \in 1..Len(OfferedBy(w)) : OfferedBy(w)[i].err = ""
          /\ ctxs'[w.c].expectResults = ctxs[w.c].expectResults - 1]_vars

\* C37: for an ack or metric context created with at least one expected
\* response, whenever its mutex is free, closed holds exactly when
\* expectResults is zero or below; so closed implies Done, and once Done
\* holds it holds in every later state.
C37_ClosedIffDoneAndDoneStable ==
    /\ [](\A c \in CtxIdx :
            (ctxs[c].kind # "meta" /\ MuFree(ctxs[c])) =>
               /\ ctxs[c].closed <=> ctxs[c].expectResults <= 0
               /\ ctxs[c].closed => Done(ctxs[c]))
    /\ [][\A c \in CtxIdx :
            (ctxs[c].kind # "meta" /\ Done(ctxs[c])) => Done(ctxs'[c])]_vars

\* an ack context expecting two acks is closed with its mutex free after a
\* third response came in
C37_Witness ==
    \E c \in CtxIdx :
        /\ ctxs[c].kind = "ack"
        /\ MuFree(ctxs[c])
        /\ ctxs[c].closed
        /\ ctxs[c].expectResults = -1
        /\ Cardinality(WorkersOf(c)) = 3
        /\ AllReturned(c)

\* the step in which SubmitMetricTask stores its metric context
RootStoreStep == sub.kind = "metric" /\ sub.pc = "store" /\ sub'.pc = "leafWg"

\* C38: SubmitMetricTask stores its metric context under rootTaskID as a
\* RootTask whose expectResults and tolerantNotFounds are the NumOfTask of the
\* plan's root, at a moment when no Leaf-typed request has been sent; so a
\* Leaf-typed request is sent, and a leaf's response is received at the
\* root, only after that context was stored.
C38_RootContextStoredBeforeLeafFanout ==
    /\ [][RootStoreStep =>
            LET c == ctxs'[sub'.ctx]
                n == IF sub.plan.ni > 0 THEN sub.plan.ni ELSE sub.plan.nl
            IN  /\ sub'.ctx = Len(ctxs) + 1
                /\ c.kind = "metric" /\ c.taskType = "RootTask"
                /\ c.taskID = sub.taskID
                /\ c.expectResults = n /\ c.tolerantNotFounds = n
                /\ ~c.closed
                /\ <<sub.taskID, sub'.ctx>> \in tasks'[Root]
                /\ ~LeafSent /\ sentLog' = sentLog]_vars
    /\ []((sub.kind = "metric" /\ LeafSent) =>
            /\ sub.ctx # 0
            /\ sub.pc \in {"leafWg", "returned"}
            /\ stats[Root].CreatedTasks >= 1)
    /\ [][\A r \in net :
            (sub.kind = "metric" /\ ReceiveStep(r) /\ r.rtype = "Leaf") =>
               /\ sub.ctx # 0
               /\ ctxs[sub.ctx].taskID = r.taskID]_vars

\* both leaves of a plan without intermediates replied, and the root handed
\* both responses to the stored context
C38_Witness ==
    /\ sub.kind = "metric" /\ sub.plan.ni = 0 /\ sub.plan.nl = 2
    /\ sub.ctx # 0
    /\ Cardinality({w \in WorkersOf(sub.ctx) : w.resp.rtype = "Leaf"}) = 2
    /\ stats[Root].EmitResponse = 2

(* ========== replica/database_channel.go: databaseChannel ============== *)
allButDc == <<seq, allocated, tasks, stats, ctxs, chans, workers, net, sent,
              sentLog, sub, cancelled, now, cleaner, recvLog, extra, pool>>

errInvalidShardID == "errInvalidShardID"
errInvalidShardNum == "errInvalidShardNum"
errChannelNotFound == "errChannelNotFound"
errChannelWrite == "channel write error"

\* getChannelByShardID: shardChannels.Load(shardID), 0 for (nil, false)
getChannelByShardID(d, shardID) == d.shardChannels[shardID]

\* a double check that never finds the channel
DoubleCheckMisses(d, shardID) == 0

\* the second getChannelByShardID of CreateChannel, under the mutex
DoubleCheck(d, shardID) == getChannelByShardID(d, shardID)

\* the argument checks of CreateChannel: the error they return, "" for none
CheckShardArgs(d, numOfShard, shardID) ==
    IF numOfShard <= 0 \/ shardID >= numOfShard THEN errInvalidShardID
    ELSE IF numOfShard < d.numOfShard THEN errInvalidShardNum
    ELSE ""

\* a CreateChannel call returns (ch, err): the deferred Unlock runs when the
\* caller holds the mutex, and the return is recorded
CreateReturn(d, k, ch, err, hit) ==
    [d EXCEPT !.creators[k] = IdleCreator,
              !.mutex = IF @ = k THEN 0 ELSE @,
              !.returns = Append(@, [numOfShard |-> d.creators[k].numOfShard,
                                     shardID |-> d.creators[k].shardID,
                                     ch |-> ch, err |-> err, hit |-> hit])]

\* goroutine k calls CreateChannel(numOfShard, shardID)
CreateCall(k, numOfShard, shardID) ==
    /\ dc.creators[k].pc = "idle"
    /\ dc.calls < MaxCreateCalls
    /\ dc' = [dc EXCEPT !.calls = @ + 1,
                        !.creators[k] = [IdleCreator EXCEPT
                                            !.pc = "load",
                                            !.numOfShard = numOfShard,
                                            !.shardID = shardID]]
    /\ UNCHANGED allButDc

\* channel, ok := dc.getChannelByShardID(shardID): return it, or go for the
\* mutex
CreateLoad(k) ==
    /\ dc.creators[k].pc = "load"
    /\ LET ch == getChannelByShardID(dc, dc.creators[k].shardID)
       IN  dc' = IF ch # 0 THEN CreateReturn(dc, k, ch, "", "first")
                 ELSE [dc EXCEPT !.creators[k].pc = "lock"]
    /\ UNCHANGED allButDc

\* dc.mutex.Lock()
CreateLock(k) ==
    /\ dc.creators[k].pc = "lock"
    /\ dc.mutex = 0
    /\ dc' = [dc EXCEPT !.mutex = k, !.creators[k].pc = "check"]
    /\ UNCHANGED allButDc

\* the double check, the argument checks and createChannel
CreateCheck(k) ==
    /\ dc.creators[k].pc = "check"
    /\ LET c == dc.creators[k]
           ch == DoubleCheck(dc, c.shardID)
           err == CheckShardArgs(dc, c.numOfShard, c.shardID)
       IN  dc' = IF ch # 0 THEN CreateReturn(dc, k, ch, "", "second")
                 ELSE IF err # "" THEN CreateReturn(dc, k, 0, err, "none")
                 ELSE [dc EXCEPT !.created = Append(@, c.shardID),
                                 !.creators[k].ch = Len(dc.created) + 1,
                                 !.creators[k].pc = "store"]
    /\ UNCHANGED allButDc

\* dc.shardChannels.Store(shardID, ch); return ch, nil
CreateStore(k) ==
    /\ dc.creators[k].pc = "store"
    /\ LET c == dc.creators[k]
       IN  dc' = CreateReturn([dc EXCEPT !.shardChannels[c.shardID] = c.ch],
                              k, c.ch, "", "none")
    /\ UNCHANGED allButDc

\* a metric of a batch: the shard jump.Hash picks for its tags (below the
\* shard count), and whether channel.Write fails on it
Metrics == [shard : 0..(DbNumOfShard - 1), fails : BOOLEAN]
Batches == UNION {[1..n -> Metrics] : n \in 1..MaxBatch}

\* Write(metricList) is called
WriteCall(batch) ==
    /\ dc.writer.pc = "idle"
    /\ dc' = [dc EXCEPT !.writer = [IdleWriter EXCEPT !.pc = "loop",
                                                      !.batch = batch]]
    /\ UNCHANGED allButDc

\* the value of err after one iteration of the loop of Write:
\* err = errChannelNotFound; continue   or   err = channel.Write(metric)
WriteErr(err, found, fails) ==
    IF ~found THEN errChannelNotFound
    ELSE IF fails THEN errChannelWrite ELSE ""

\* one iteration of the loop of Write
WriteMetric ==
    /\ dc.writer.pc = "loop"
    /\ dc.writer.i <= Len(dc.writer.batch)
    /\ LET wr == dc.writer
           m == wr.batch[wr.i]
           found == getChannelByShardID(dc, m.shard) # 0
       IN  dc' = [dc EXCEPT
                    !.writer.i = @ + 1,
                    !.writer.attempted = @ + 1,
                    !.writer.failed = IF ~found \/ m.fails THEN @ \cup {wr.i} ELSE @,
                    !.writer.err = WriteErr(wr.err, found, m.fails)]
    /\ UNCHANGED allButDc

\* return (the named result err)
WriteReturn ==
    /\ dc.writer.pc = "loop"
    /\ dc.writer.i > Len(dc.writer.batch)
    /\ dc' = [dc EXCEPT !.writer.pc = "returned"]
    /\ UNCHANGED allButDc

InitDc == InitPool
CreateSteps ==
    \/ \E k \in 1..MaxCreators : CreateLoad(k)
    \/ \E k \in 1..MaxCreators : CreateLock(k)
    \/ \E k \in 1..MaxCreators : CreateCheck(k)
    \/ \E k \in 1..MaxCreators : CreateStore(k)
\* concurrent CreateChannel calls with every shard count and shard id
NextCreate ==
    \/ \E k \in 1..MaxCreators, n \in ShardNums, s \in ShardIDs : CreateCall(k, n, s)
    \/ CreateSteps
SpecCreate == InitDc /\ [][NextCreate]_vars

\* one Write next to CreateChannel calls that create the shards' channels
NextWrite ==
    \/ \E k \in 1..MaxCreators, s \in 0..(DbNumOfShard - 1) :
          CreateCall(k, DbNumOfShard, s)
    \/ CreateSteps
    \/ \E b \in Batches : WriteCall(b)
    \/ WriteMetric
    \/ WriteReturn
SpecWrite == InitDc /\ [][NextWrite]_vars

Returns == {dc.returns[i] : i \in 1..Len(dc.returns)}
\* the channels createChannel has built for shard s
ChannelsOf(s) == {i \in 1..Len(dc.created) : dc.created[i] = s}
\* a CreateChannel call returns in this step
CreateReturnStep == Len(dc.returns') = Len(dc.returns) + 1

\* C39 as stated: every CreateChannel call with numOfShard <= 0 or shardID >=
\* numOfShard returns errInvalidShardID, and every call with a numOfShard
\* below the database's shard count returns errInvalidShardNum.
C39_InvalidArgsAlwaysRejected ==
    \A r \in Returns :
        /\ (r.numOfShard <= 0 \/ r.shardID >= r.numOfShard) =>
              r.err = errInvalidShardID
        /\ (~(r.numOfShard <= 0 \/ r.shardID >= r.numOfShard)
              /\ r.numOfShard < dc.numOfShard) => r.err = errInvalidShardNum

\* C39: under any interleaving of CreateChannel calls at most one channel is
\* built per shard id, and every call that returns a channel for a shard id
\* returns that one.  A call that finds no channel stored for its shard id
\* returns errInvalidShardID when numOfShard <= 0 or shardID >= numOfShard,
\* else errInvalidShardNum when numOfShard is below the database's shard
\* count, in both cases with no channel built or stored; a call that finds a
\* channel stored returns it without looking at numOfShard.
C39_OneChannelPerShard ==
    /\ [](\A s \in ShardIDs : Cardinality(ChannelsOf(s)) <= 1)
    /\ [](\A r \in Returns :
            /\ r.ch # 0 => (r.err = "" /\ ChannelsOf(r.shardID) = {r.ch})
            /\ r.hit = "none" =>
                  /\ (r.numOfShard <= 0 \/ r.shardID >= r.numOfShard) =>
                        r.err = errInvalidShardID
                  /\ (r.numOfShard > r.shardID /\ r.numOfShard < DbNumOfShard) =>
                        r.err = errInvalidShardNum
                  /\ (r.numOfShard > r.shardID /\ r.numOfShard >= DbNumOfShard) =>
                        r.err = ""
                  /\ r.err # "" <=> r.ch = 0
            /\ r.hit # "none" => (r.ch # 0 /\ r.err = ""))
    /\ [][(CreateReturnStep /\ dc.returns'[Len(dc.returns')].err # "") =>
            /\ dc.shardChannels' = dc.shardChannels
            /\ dc.created' = dc.created]_vars
    /\ [](\A s \in ShardIDs :
            dc.shardChannels[s] # 0 => dc.shardChannels[s] \in ChannelsOf(s))

\* two concurrent calls for one shard both missed the first lookup and got
\* the same channel, and a later call with a shard count of zero got it too
C39_Witness ==
    \E r1, r2, r3 \in Returns :
        /\ r1.shardID = r2.shardID /\ r2.shardID = r3.shardID
        /\ r1.hit = "none" /\ r1.ch # 0
        /\ r2.hit = "second" /\ r2.ch = r1.ch
        /\ r3.hit = "first" /\ r3.numOfShard = 0 /\ r3.ch = r1.ch

\* C40: a Write that has returned attempted every metric of its batch, and
\* returned a non-nil error if a metric found no channel for its shard or
\* its channel write failed, at whatever position of the batch.
C40_WriteReportsAnyFailure ==
    dc.writer.pc = "returned" =>
        /\ dc.writer.attempted = Len(dc.writer.batch)
        /\ dc.writer.failed # {} => dc.writer.err # ""

=============================================================================
